---------------------------- MODULE Spec2Model ----------------------------
(***************************************************************************)
(* A model of the decision core of gabelstaplerwm: the client registry     *)
(* (wm/client.rs), the tag stack (wm/client.rs), the stack layouts          *)
(* (wm/layout/hstack.rs, wm/layout/vstack.rs) and the event dispatcher      *)
(* (wm/window_system.rs).                                                   *)
(*                                                                         *)
(* Option<T> is a sequence of length <= 1 (None == <<>>, Some(x) == <<x>>), *)
(* Vec<T> is a sequence.  A weak reference is the window of the client it   *)
(* points to while that client's Rc is alive, and Dead once the Rc has been *)
(* dropped (a dead reference can only fail to upgrade, so all dead          *)
(* references behave alike).                                                *)
(***************************************************************************)
EXTENDS Integers, Sequences, FiniteSets, TLC

\* ------------------------------------------------------------------ bounds
NumWindows == 3
NumRegWindows == 2
NumTags == 2
MaxTagLen == 2
MaxPushes == 6
MaxViews == 2
MaxRefs == 4
MaxMembers == 4
MaxUnmanaged == 1
MaxStack == 2
MaxEvents == 2

Windows == 1..NumWindows
RegWindows == 1..NumRegWindows
Tags == 1..NumTags

\* ---------------------------------------------------------------- helpers
None == <<>>
Some(x) == <<x>>

Range(s) == {s[i] : i \in DOMAIN s}

SeqsUpTo(S, n) == UNION {[1..k -> S] : k \in 0..n}

RECURSIVE SelectSeq2(_, _)
\* s.iter().filter(keep).collect(), keep given as the set of kept values
SelectSeq2(s, keep) ==
    IF s = <<>> THEN <<>>
    ELSE IF Head(s) \in keep THEN <<Head(s)>> \o SelectSeq2(Tail(s), keep)
    ELSE SelectSeq2(Tail(s), keep)

\* s.iter().position(|x| x == v): the first index (1-based) holding v, 0 if none
Position(s, v) ==
    IF \E i \in DOMAIN s : s[i] = v
    THEN CHOOSE i \in DOMAIN s : s[i] = v /\ \A j \in 1..(i - 1) : s[j] # v
    ELSE 0

\* s.remove(index), 1-based
RemoveAt(s, i) == SubSeq(s, 1, i - 1) \o SubSeq(s, i + 1, Len(s))

\* s.swap(i, j), 1-based
SwapAt(s, i, j) == [s EXCEPT ![i] = s[j], ![j] = s[i]]

\* s.first().map(|r| r.clone())
First(s) == IF s = <<>> THEN None ELSE Some(s[1])

\* all orderings of a finite set
Perms(S) == {p \in [1..Cardinality(S) -> S] : Range(p) = S}

\* the dead weak reference
Dead == 0

\* usize is 64 bits wide on the targets the program is built for
UsizeBits == 64

VARIABLES
    status,            \* "running", "panicked" (a failed unwrap or a checked
                       \* overflow) or "exited" (exit(0))
    overflow_checks,   \* is the build one that panics on integer overflow?
    client,            \* one Client value (Client's own methods)
    clients,           \* Wm.clients: the ClientSet [clients, order]
    tag_stack,         \* Wm.tag_stack.tags: Vec<TagSet>, last is current
    pushed,            \* Some(the tag sets pushed so far) while the tag stack
                       \* has only been pushed to since TagStack::new()
    layout,            \* a layout value (HStack or VStack)
    screen,            \* the ScreenSize handed to arrange
    num_windows,       \* the member count handed to arrange
    geometries,        \* Some(what arrange returned last)
    query,             \* Some(what the four direction queries returned last)
    mode,              \* Wm.mode
    visible_windows,   \* Wm.visible_windows
    focused_window,    \* Wm.focused_window
    unmanaged_windows, \* Wm.unmanaged_windows
    trace,             \* what the handling of the last event did, in order
    handled            \* how many events the dispatcher has handled

clientVars == <<client>>
stackVars == <<tag_stack, pushed>>
layoutVars == <<layout, screen, num_windows, geometries, query>>
wmVars == <<mode, visible_windows, focused_window, unmanaged_windows, trace,
           handled>>
vars == <<status, overflow_checks, client, clients, tag_stack, pushed, layout,
          screen, num_windows, geometries, query, mode, visible_windows,
          focused_window, unmanaged_windows, trace, handled>>

\* ------------------------------------------------------------------ Client

\* Client::new
Client_new(window, tags) == [window |-> window, tags |-> tags]

\* a set_tags that also accepts the empty slice
Client_set_tags_unguarded(c, tags) == [c EXCEPT !.tags = tags]

\* Client::set_tags
Client_set_tags(c, tags) ==
    IF Len(tags) > 0 THEN [c EXCEPT !.tags = tags] ELSE c

\* Client::toggle_tag
Client_toggle_tag(c, tag) ==
    LET index == Position(c.tags, tag) IN
    IF index # 0
    THEN IF Len(c.tags) > 1 THEN [c EXCEPT !.tags = RemoveAt(c.tags, index)]
         ELSE c
    ELSE [c EXCEPT !.tags = Append(c.tags, tag)]

\* Client::match_tags
match_tags(c, tags) ==
    \E i \in DOMAIN c.tags : \E j \in DOMAIN tags : c.tags[i] = tags[j]

\* --------------------------------------------------------------- ClientSet

\* ClientSet::new
ClientSet_new == [clients |-> <<>>, order |-> <<>>]

\* the windows the client map owns
Owned(cs) == DOMAIN cs.clients

\* Weak::upgrade(): does the reference still resolve?
upgrade(r) == r # Dead

\* dropping the Rc of window w: every weak reference to it dies
DropRc(cs, w) ==
    [cs EXCEPT !.order =
        [k \in DOMAIN cs.order |->
            [focus |-> [i \in DOMAIN cs.order[k].focus |->
                          IF cs.order[k].focus[i] = w THEN Dead
                          ELSE cs.order[k].focus[i]],
             refs |-> [i \in DOMAIN cs.order[k].refs |->
                          IF cs.order[k].refs[i] = w THEN Dead
                          ELSE cs.order[k].refs[i]]]]]

\* self.clients.values(): the HashMap enumerates the owned clients in some order
ValuesOrders(cs) == Perms(Owned(cs))

\* the enumerations that can make a difference to a call that looks tags up:
\* the enumeration is only used when the entry is created
ValuesOrdersFor(cs, tags) ==
    IF tags \in DOMAIN cs.order
    THEN {<<>>}
    ELSE ValuesOrders(cs)

\* ClientSet::get_order_or_insert; values is the enumeration of self.clients
get_order_or_insert(cs, tags, values) ==
    LET matching == {w \in Owned(cs) : match_tags(cs.clients[w], tags)}
        refs == SelectSeq2(values, matching)
        focused == First(refs)
    IN IF tags \in DOMAIN cs.order THEN cs
       ELSE [cs EXCEPT !.order =
                [k \in DOMAIN cs.order \cup {tags} |->
                    IF k = tags THEN [focus |-> focused, refs |-> refs]
                    ELSE cs.order[k]]]

\* a sweep of one entry that leaves the focus reference as it is
clean_entry_keepfocus(entry) ==
    [entry EXCEPT !.refs = SelectSeq2(entry.refs, Range(entry.refs) \ {Dead})]

\* one entry of ClientSet::clean
clean_entry(entry) ==
    LET refs == SelectSeq2(entry.refs, Range(entry.refs) \ {Dead}) IN
    [focus |-> IF entry.focus = None \/ ~upgrade(entry.focus[1])
               THEN First(refs) ELSE entry.focus,
     refs |-> refs]

\* ClientSet::clean
clean(cs) ==
    [cs EXCEPT !.order = [k \in DOMAIN cs.order |-> clean_entry(cs.order[k])]]

\* an add that appends the reference and leaves the focus where it was
ClientSet_add_nofocus(cs, c) ==
    [clients |-> [w \in Owned(cs) \cup {c.window} |->
                    IF w = c.window THEN c ELSE cs.clients[w]],
     order |-> [k \in DOMAIN cs.order |->
                  IF match_tags(c, k)
                  THEN [cs.order[k] EXCEPT !.refs = Append(@, c.window)]
                  ELSE cs.order[k]]]

\* ClientSet::add
ClientSet_add(cs, c) ==
    LET dropped == IF c.window \in Owned(cs) THEN DropRc(cs, c.window) ELSE cs
    IN [clients |-> [w \in Owned(cs) \cup {c.window} |->
                        IF w = c.window THEN c ELSE cs.clients[w]],
        order |-> [k \in DOMAIN dropped.order |->
                     IF match_tags(c, k)
                     THEN [focus |-> Some(c.window),
                           refs |-> Append(dropped.order[k].refs, c.window)]
                     ELSE dropped.order[k]]]

\* a remove that forgets the clean pass
ClientSet_remove_noclean(cs, window) ==
    IF window \in Owned(cs)
    THEN LET dropped == DropRc(cs, window) IN
         [clients |-> [w \in Owned(cs) \ {window} |-> cs.clients[w]],
          order |-> dropped.order]
    ELSE cs

\* ClientSet::remove (the registry after the call)
ClientSet_remove(cs, window) ==
    IF window \in Owned(cs)
    THEN LET dropped == DropRc(cs, window) IN
         clean([clients |-> [w \in Owned(cs) \ {window} |-> cs.clients[w]],
                order |-> dropped.order])
    ELSE cs

\* ClientSet::remove (the value returned)
ClientSet_remove_result(cs, window) == window \in Owned(cs)


\* get_client_by_window
get_client_by_window(cs, window) ==
    IF window \in Owned(cs) THEN Some(cs.clients[window]) ELSE None

\* ClientSet::is_ref_to_client
is_ref_to_client(r, target) == upgrade(r) /\ r = target.window

\* a fix of one entry that drops and appends references but never touches
\* the focus reference
fix_entry_keepfocus(tags, entry, target) ==
    IF ~match_tags(target, tags)
    THEN [entry EXCEPT !.refs =
             SelectSeq2(entry.refs, Range(entry.refs) \ {target.window})]
    ELSE IF ~\E i \in DOMAIN entry.refs : is_ref_to_client(entry.refs[i], target)
    THEN [entry EXCEPT !.refs = Append(entry.refs, target.window)]
    ELSE entry
\* one entry of ClientSet::fix_references
fix_entry(tags, entry, target) ==
    IF ~match_tags(target, tags)
    THEN LET refs == SelectSeq2(entry.refs, Range(entry.refs) \ {target.window})
         IN [focus |-> IF entry.focus # None
                          /\ ~is_ref_to_client(entry.focus[1], target)
                       THEN entry.focus ELSE First(refs),
             refs |-> refs]
    ELSE IF ~\E i \in DOMAIN entry.refs : is_ref_to_client(entry.refs[i], target)
    THEN LET refs == Append(entry.refs, target.window)
         IN [focus |-> IF entry.focus # None THEN entry.focus ELSE First(refs),
             refs |-> refs]
    ELSE entry

\* a registry that leaves every view as it was after a client changed
fix_references_skipped(cs, target) == cs
\* ClientSet::fix_references
fix_references(cs, target) ==
    [cs EXCEPT !.order =
        [k \in DOMAIN cs.order |-> fix_entry(k, cs.order[k], target)]]

\* an update that stores the mutated client whether or not the window had one
update_client_unguarded(cs, window, mutated) ==
    fix_references(
        [cs EXCEPT !.clients =
            [w \in Owned(cs) \cup {window} |->
                IF w = window THEN mutated ELSE cs.clients[w]]],
        mutated)
\* ClientSet::update_client with the mutator's effect on the client given as
\* the client it leaves behind (the registry after the call)
update_client(cs, window, mutated) ==
    IF window \in Owned(cs)
    THEN fix_references([cs EXCEPT !.clients[window] = mutated], mutated)
    ELSE cs

\* ClientSet::update_client (the value returned): what the mutator returns,
\* its intent, when the window has a client
update_client_result(cs, window, intent) ==
    IF window \in Owned(cs) THEN Some(intent) ELSE None

\* ClientSet::get_focused_window
get_focused_window(cs, tags) ==
    IF tags \in DOMAIN cs.order
       /\ cs.order[tags].focus # None
       /\ upgrade(cs.order[tags].focus[1])
    THEN Some(cs.order[tags].focus[1])
    ELSE None

RECURSIVE Pow2Mod(_, _)
\* 2^k modulo n
Pow2Mod(k, n) == IF k = 0 THEN 1 % n ELSE (2 * Pow2Mod(k - 1, n)) % n

\* (i as usize) % n for an isize i: a negative i wraps to 2^UsizeBits + i
AsUsizeMod(i, n) ==
    IF i >= 0 THEN i % n ELSE (Pow2Mod(UsizeBits, n) + (i % n)) % n

\* new_index of focus_offset and swap_offset (0-based)
offset_index(current_index, offset, len) ==
    AsUsizeMod(current_index + offset, len)

\* the focused window of an entry, if its reference resolves
current_window(entry) ==
    IF entry.focus # None /\ upgrade(entry.focus[1]) THEN entry.focus ELSE None

\* does position(..).unwrap() fail for this entry?  (the focus reference
\* resolves but no reference of the list points to the same window)
position_unwrap_fails(entry) ==
    current_window(entry) # None
    /\ Position(entry.refs, current_window(entry)[1]) = 0

\* a focus_offset that moves the focused client to the end of the sequence
\* instead of moving the focus reference
focus_offset_rotating(cs, tags, offset, values) ==
    LET cs1 == get_order_or_insert(cs, tags, values)
        entry == cs1.order[tags]
        cur == current_window(entry)
    IN IF cur = None \/ position_unwrap_fails(entry) THEN cs1
       ELSE [cs1 EXCEPT !.order[tags].refs =
                Append(RemoveAt(entry.refs, Position(entry.refs, cur[1])),
                       cur[1])]
\* ClientSet::focus_offset
focus_offset(cs, tags, offset, values) ==
    LET cs1 == get_order_or_insert(cs, tags, values)
        entry == cs1.order[tags]
        cur == current_window(entry)
    IN IF cur = None \/ position_unwrap_fails(entry) THEN cs1
       ELSE LET current_index == Position(entry.refs, cur[1]) - 1
                new_index == offset_index(current_index, offset, Len(entry.refs))
            IN [cs1 EXCEPT !.order[tags].focus = Some(entry.refs[new_index + 1])]

\* ClientSet::swap_offset
swap_offset(cs, tags, offset, values) ==
    LET cs1 == get_order_or_insert(cs, tags, values)
        entry == cs1.order[tags]
        cur == current_window(entry)
    IN IF cur = None \/ position_unwrap_fails(entry) THEN cs1
       ELSE LET current_index == Position(entry.refs, cur[1]) - 1
                new_index == offset_index(current_index, offset, Len(entry.refs))
            IN [cs1 EXCEPT !.order[tags].refs =
                    SwapAt(entry.refs, current_index + 1, new_index + 1)]

\* a swap_next that exchanges nothing
ClientSet_swap_next_noop(cs, tags, values) == get_order_or_insert(cs, tags, values)

\* ClientSet::focus_next
ClientSet_focus_next(cs, tags, values) == focus_offset(cs, tags, 1, values)

\* ClientSet::swap_next
ClientSet_swap_next(cs, tags, values) == swap_offset(cs, tags, 1, values)

\* ClientSet::focus_prev
ClientSet_focus_prev(cs, tags, values) == focus_offset(cs, tags, -1, values)

\* ClientSet::swap_prev
ClientSet_swap_prev(cs, tags, values) == swap_offset(cs, tags, -1, values)

\* ----------------------------------------------------------------- layouts
\* A layout is [kind, master_factor, inverted, fixed]; a ScreenSize is
\* [offset_x, offset_y, width, height]; a Geometry is [x, y, width, height].
\* Indices passed to and returned by the direction queries are 0-based, as in
\* the source.

\* u16 holds the values 0 .. U16Mod - 1
U16Mod == 65536

\* the value a u16 operation leaves when the build wraps on overflow
WrapU16(x) == x % U16Mod

\* does the mathematical result of a u16 operation fit?
FitsU16(x) == x >= 0 /\ x < U16Mod

\* the marker an index subtraction leaves when it goes below zero (usize::MAX
\* in a build that wraps, a panic in a build that checks)
Underflow == -1

\* index - 1 on usize
USubOne(index) == IF index >= 1 THEN index - 1 ELSE Underflow

\* HStack::default
HStack_default ==
    [kind |-> "HStack", master_factor |-> 50, inverted |-> FALSE, fixed |-> FALSE]

\* VStack::default
VStack_default ==
    [kind |-> "VStack", master_factor |-> 50, inverted |-> FALSE, fixed |-> FALSE]

\* master_height of HStack::arrange: [val: the wrapped u16, ovf: did it overflow]
HStack_master_height(l, scr) ==
    IF l.master_factor >= 100
    THEN [val |-> scr.height, ovf |-> FALSE]
    ELSE [val |-> WrapU16(l.master_factor * scr.height) \div 100,
          ovf |-> ~FitsU16(l.master_factor * scr.height)]

\* HStack::arrange: res is the vector returned when every u16 operation wraps,
\* ovf says whether some u16 operation overflowed, div0 whether it divided by 0
HStack_arrange(l, num, scr) ==
    LET mh == HStack_master_height(l, scr)
        master_height == mh.val
    IN IF num = 1
       THEN [res |-> <<Some([x |-> 0, y |-> 0, width |-> scr.width,
                             height |-> IF l.fixed THEN master_height
                                        ELSE scr.height])>>,
             ovf |-> mh.ovf, div0 |-> FALSE]
       ELSE IF num > 1
       THEN LET master_y == IF l.inverted THEN scr.height - master_height ELSE 0
                slave_y == IF l.inverted THEN 0 ELSE master_height
                divisor == WrapU16(WrapU16(num) - 1)
                slave_width == IF divisor = 0 THEN 0 ELSE scr.width \div divisor
                slave(i) == Some([x |-> WrapU16((WrapU16(i) - 1) * slave_width),
                                  y |-> slave_y,
                                  width |-> slave_width,
                                  height |-> WrapU16(scr.height - master_height)])
            IN [res |-> <<Some([x |-> 0, y |-> WrapU16(master_y),
                                width |-> scr.width,
                                height |-> master_height])>>
                        \o [i \in 1..(num - 1) |-> slave(i)],
                ovf |-> mh.ovf
                        \/ ~FitsU16(scr.height - master_height)
                        \/ ~FitsU16(WrapU16(num) - 1)
                        \/ \E i \in 1..(num - 1) :
                              ~FitsU16(WrapU16(i) - 1)
                              \/ ~FitsU16((WrapU16(i) - 1) * slave_width),
                div0 |-> divisor = 0]
       ELSE [res |-> <<>>, ovf |-> mh.ovf, div0 |-> FALSE]

\* HStack::right_window
HStack_right_window(l, index, max) ==
    IF index = 0 THEN Some(max)
    ELSE IF index < max THEN Some(index + 1)
    ELSE None

\* a left_window that subtracts before it looks at the index
HStack_left_window_unguarded(l, index, max) ==
    IF index = 1 THEN None ELSE Some(USubOne(index))

\* HStack::left_window
HStack_left_window(l, index, max) ==
    IF index <= 1 THEN None ELSE Some(USubOne(index))

\* HStack::top_window
HStack_top_window(l, index, max) ==
    IF index = 0
    THEN IF l.inverted /\ max >= 1 THEN Some(1) ELSE None
    ELSE IF ~l.inverted THEN Some(0) ELSE None

\* HStack::bottom_window
HStack_bottom_window(l, index, max) ==
    IF index = 0
    THEN IF ~l.inverted /\ max >= 1 THEN Some(1) ELSE None
    ELSE IF l.inverted THEN Some(0) ELSE None

\* master_width of VStack::arrange
VStack_master_width(l, scr) ==
    IF l.master_factor >= 100
    THEN [val |-> scr.width, ovf |-> FALSE]
    ELSE [val |-> WrapU16(l.master_factor * scr.width) \div 100,
          ovf |-> ~FitsU16(l.master_factor * scr.width)]

\* VStack::arrange
VStack_arrange(l, num, scr) ==
    LET mw == VStack_master_width(l, scr)
        master_width == mw.val
    IN IF num = 1
       THEN LET w == IF l.fixed THEN master_width ELSE scr.width
            IN [res |-> <<Some([x |-> scr.offset_x, y |-> scr.offset_y,
                                width |-> WrapU16(w - 2),
                                height |-> WrapU16(scr.height - 2)])>>,
                ovf |-> mw.ovf \/ ~FitsU16(w - 2) \/ ~FitsU16(scr.height - 2),
                div0 |-> FALSE]
       ELSE IF num > 1
       THEN LET master_x == IF l.inverted THEN scr.width - master_width ELSE 0
                slave_x == IF l.inverted THEN 0 ELSE master_width
                divisor == WrapU16(WrapU16(num) - 1)
                slave_height == IF divisor = 0 THEN 0 ELSE scr.height \div divisor
                slave_w == WrapU16(scr.width - master_width)
                slave(i) ==
                    Some([x |-> WrapU16(slave_x + scr.offset_x),
                          y |-> WrapU16(WrapU16((WrapU16(i) - 1) * slave_height)
                                        + scr.offset_y),
                          width |-> WrapU16(slave_w - 2),
                          height |-> WrapU16(slave_height - 2)])
            IN [res |-> <<Some([x |-> WrapU16(WrapU16(master_x) + scr.offset_x),
                                y |-> scr.offset_y,
                                width |-> WrapU16(master_width - 2),
                                height |-> WrapU16(scr.height - 2)])>>
                        \o [i \in 1..(num - 1) |-> slave(i)],
                ovf |-> mw.ovf
                        \/ ~FitsU16(scr.width - master_width)
                        \/ ~FitsU16(WrapU16(master_x) + scr.offset_x)
                        \/ ~FitsU16(master_width - 2)
                        \/ ~FitsU16(scr.height - 2)
                        \/ ~FitsU16(WrapU16(num) - 1)
                        \/ ~FitsU16(slave_x + scr.offset_x)
                        \/ ~FitsU16(slave_w - 2)
                        \/ ~FitsU16(slave_height - 2)
                        \/ \E i \in 1..(num - 1) :
                              ~FitsU16(WrapU16(i) - 1)
                              \/ ~FitsU16((WrapU16(i) - 1) * slave_height)
                              \/ ~FitsU16(WrapU16((WrapU16(i) - 1) * slave_height)
                                          + scr.offset_y),
                div0 |-> divisor = 0]
       ELSE [res |-> <<>>, ovf |-> mw.ovf, div0 |-> FALSE]

\* VStack::right_window
VStack_right_window(l, index, max) ==
    IF index = 0
    THEN IF ~l.inverted /\ max >= 1 THEN Some(1) ELSE None
    ELSE IF l.inverted THEN Some(0) ELSE None

\* VStack::left_window
VStack_left_window(l, index, max) ==
    IF index = 0
    THEN IF l.inverted /\ max >= 1 THEN Some(1) ELSE None
    ELSE IF l.inverted THEN None ELSE Some(0)

\* a top_window that subtracts before it looks at the index
VStack_top_window_unguarded(l, index, max) ==
    IF index = 1 THEN None ELSE Some(USubOne(index))
\* VStack::top_window
VStack_top_window(l, index, max) ==
    IF index <= 1 THEN None ELSE Some(USubOne(index))

\* VStack::bottom_window
VStack_bottom_window(l, index, max) ==
    IF index = 0 THEN Some(max)
    ELSE IF index < max THEN Some(index + 1)
    ELSE None

\* u8 holds the values 0 .. U8Mod - 1
U8Mod == 256

\* the values of an i8
I8 == (-(U8Mod \div 2))..((U8Mod \div 2) - 1)

\* i8::abs, which overflows for the most negative value: val is what a build
\* that wraps leaves, ovf says whether the negation overflowed
I8_abs(mf) ==
    IF mf = -(U8Mod \div 2) THEN [val |-> mf, ovf |-> TRUE]
    ELSE [val |-> IF mf < 0 THEN -mf ELSE mf, ovf |-> FALSE]

\* VStack::edit_layout: layout is the layout the message leaves and panic
\* says whether a build with overflow checks (checks) panics instead
VStack_edit_layout(l, msg, checks) ==
    IF msg.kind = "MasterFactorAbs"
    THEN [layout |-> [l EXCEPT !.master_factor = msg.value % 100],
          panic |-> FALSE]
    ELSE IF msg.kind = "MasterFactorRel"
    THEN LET abs == I8_abs(msg.value)
             as_u8 == abs.val % U8Mod
         IN [layout |->
                [l EXCEPT !.master_factor =
                    IF msg.value < 0
                    THEN IF l.master_factor >= as_u8
                         THEN l.master_factor - as_u8 ELSE 0
                    ELSE (IF l.master_factor + as_u8 < U8Mod
                          THEN l.master_factor + as_u8 ELSE U8Mod - 1) % 100],
             panic |-> checks /\ abs.ovf]
    ELSE IF msg.kind = "FixedAbs"
    THEN [layout |-> [l EXCEPT !.fixed = msg.value], panic |-> FALSE]
    ELSE IF msg.kind = "FixedRel"
    THEN [layout |-> [l EXCEPT !.fixed = ~l.fixed], panic |-> FALSE]
    ELSE [layout |-> l, panic |-> FALSE]
\* the single-window layout: the layout variant of the repository that shows
\* the master window alone and wants every new window as master
Monocle_default ==
    [kind |-> "Monocle", master_factor |-> 100, inverted |-> FALSE,
     fixed |-> FALSE]

\* arrange of the single-window layout: the master fills the screen, every
\* other member gets no rectangle
Monocle_arrange(l, num, scr) ==
    [res |-> [i \in 1..num |->
                 IF i = 1
                 THEN Some([x |-> scr.offset_x, y |-> scr.offset_y,
                            width |-> scr.width, height |-> scr.height])
                 ELSE None],
     ovf |-> FALSE, div0 |-> FALSE]

\* the direction queries of the single-window layout: no neighbour is shown
Monocle_neighbour(l, index, max) == None

\* layout.arrange(..) through the Layout trait object
arrange(l, num, scr) ==
    IF l.kind = "HStack" THEN HStack_arrange(l, num, scr)
    ELSE IF l.kind = "VStack" THEN VStack_arrange(l, num, scr)
    ELSE Monocle_arrange(l, num, scr)

\* layout.right_window(..) through the Layout trait object
right_window(l, index, max) ==
    IF l.kind = "HStack" THEN HStack_right_window(l, index, max)
    ELSE IF l.kind = "VStack" THEN VStack_right_window(l, index, max)
    ELSE Monocle_neighbour(l, index, max)

\* layout.left_window(..) through the Layout trait object
left_window(l, index, max) ==
    IF l.kind = "HStack" THEN HStack_left_window(l, index, max)
    ELSE IF l.kind = "VStack" THEN VStack_left_window(l, index, max)
    ELSE Monocle_neighbour(l, index, max)

\* layout.top_window(..) through the Layout trait object
top_window(l, index, max) ==
    IF l.kind = "HStack" THEN HStack_top_window(l, index, max)
    ELSE IF l.kind = "VStack" THEN VStack_top_window(l, index, max)
    ELSE Monocle_neighbour(l, index, max)

\* layout.bottom_window(..) through the Layout trait object
bottom_window(l, index, max) ==
    IF l.kind = "HStack" THEN HStack_bottom_window(l, index, max)
    ELSE IF l.kind = "VStack" THEN VStack_bottom_window(l, index, max)
    ELSE Monocle_neighbour(l, index, max)

\* ------------------------------------------------------- TagSet, TagStack

\* TagSet::new
TagSet_new(tags, l) == [tags |-> tags, layout |-> l]

\* TagSet::toggle_tag
TagSet_toggle_tag(tagset, tag) ==
    LET index == Position(tagset.tags, tag) IN
    IF index # 0 THEN [tagset EXCEPT !.tags = RemoveAt(tagset.tags, index)]
    ELSE [tagset EXCEPT !.tags = Append(tagset.tags, tag)]

\* TagStack::new (the tags vector)
TagStack_new == <<>>

\* TagStack::current
current(stack) == IF stack = <<>> THEN None ELSE Some(stack[Len(stack)])

\* the number of entries a push keeps of a full stack
PushKeeps == 3

\* the length from which a push drops entries
PushLimit == 4

\* a push that never drops an entry
TagStack_push_nodrain(stack, tagset) == Append(stack, tagset)

\* a push that drops entries only from a stack longer than the limit
TagStack_push_late(stack, tagset) ==
    Append(IF Len(stack) > PushLimit
           THEN SubSeq(stack, (Len(stack) - PushKeeps) + 1, Len(stack))
           ELSE stack, tagset)

\* TagStack::push
TagStack_push(stack, tagset) ==
    LET len == Len(stack)
        drained == IF len >= PushLimit
                   THEN SubSeq(stack, (len - PushKeeps) + 1, len)
                   ELSE stack
    IN Append(drained, tagset)

\* TagStack::swap_top
TagStack_swap_top(stack) ==
    IF Len(stack) >= 2
    THEN LET last == stack[Len(stack)]
             new_last == stack[Len(stack) - 1]
         IN Append(Append(SubSeq(stack, 1, Len(stack) - 2), last), new_last)
    ELSE stack

\* TagStack::swap_nth (index is 0-based)
TagStack_swap_nth(stack, index) ==
    IF Len(stack) > index
    THEN Append(RemoveAt(stack, index + 1), stack[index + 1])
    ELSE stack

\* -------------------------------------------- ClientSet: direction queries

\* the closures handed to focus_direction and swap_direction: the layout
\* query dir of tagset.layout, or |_, _| Some(0) for dir = "master"
call_focus_func(focus_func, index, max) ==
    IF focus_func.dir = "right" THEN right_window(focus_func.layout, index, max)
    ELSE IF focus_func.dir = "left" THEN left_window(focus_func.layout, index, max)
    ELSE IF focus_func.dir = "top" THEN top_window(focus_func.layout, index, max)
    ELSE IF focus_func.dir = "bottom"
    THEN bottom_window(focus_func.layout, index, max)
    ELSE Some(0)

\* ClientSet::focus_direction
focus_direction(cs, tags, focus_func, values) ==
    LET cs1 == get_order_or_insert(cs, tags, values)
        entry == cs1.order[tags]
        cur == current_window(entry)
    IN IF cur = None \/ position_unwrap_fails(entry) THEN cs1
       ELSE LET current_index == Position(entry.refs, cur[1]) - 1
                new_index == call_focus_func(focus_func, current_index,
                                             Len(entry.refs) - 1)
            IN IF new_index # None /\ new_index[1] >= 0
                  /\ new_index[1] < Len(entry.refs)
               THEN [cs1 EXCEPT !.order[tags].focus =
                        Some(entry.refs[new_index[1] + 1])]
               ELSE cs1

\* ClientSet::swap_direction
swap_direction(cs, tags, focus_func, values) ==
    LET cs1 == get_order_or_insert(cs, tags, values)
        entry == cs1.order[tags]
        cur == current_window(entry)
    IN IF cur = None \/ position_unwrap_fails(entry) THEN cs1
       ELSE LET current_index == Position(entry.refs, cur[1]) - 1
                new_index == call_focus_func(focus_func, current_index,
                                             Len(entry.refs) - 1)
            IN IF new_index # None /\ new_index[1] >= 0
                  /\ new_index[1] < Len(entry.refs)
               THEN [cs1 EXCEPT !.order[tags].refs =
                        SwapAt(entry.refs, current_index + 1, new_index[1] + 1)]
               ELSE cs1

\* ClientSet::focus_right
ClientSet_focus_right(cs, tagset, values) ==
    focus_direction(cs, tagset.tags,
                    [dir |-> "right", layout |-> tagset.layout], values)

\* ClientSet::swap_right
ClientSet_swap_right(cs, tagset, values) ==
    swap_direction(cs, tagset.tags,
                   [dir |-> "right", layout |-> tagset.layout], values)

\* ClientSet::focus_left
ClientSet_focus_left(cs, tagset, values) ==
    focus_direction(cs, tagset.tags,
                    [dir |-> "left", layout |-> tagset.layout], values)

\* ClientSet::swap_left
ClientSet_swap_left(cs, tagset, values) ==
    swap_direction(cs, tagset.tags,
                   [dir |-> "left", layout |-> tagset.layout], values)

\* ClientSet::focus_top
ClientSet_focus_top(cs, tagset, values) ==
    focus_direction(cs, tagset.tags,
                    [dir |-> "top", layout |-> tagset.layout], values)

\* ClientSet::swap_top
ClientSet_swap_top(cs, tagset, values) ==
    swap_direction(cs, tagset.tags,
                   [dir |-> "top", layout |-> tagset.layout], values)

\* ClientSet::focus_bottom
ClientSet_focus_bottom(cs, tagset, values) ==
    focus_direction(cs, tagset.tags,
                    [dir |-> "bottom", layout |-> tagset.layout], values)

\* ClientSet::swap_bottom
ClientSet_swap_bottom(cs, tagset, values) ==
    swap_direction(cs, tagset.tags,
                   [dir |-> "bottom", layout |-> tagset.layout], values)

\* ClientSet::swap_master
ClientSet_swap_master(cs, tagset, values) ==
    swap_direction(cs, tagset.tags,
                   [dir |-> "master", layout |-> tagset.layout], values)

\* does a navigation call on these tags fail its position(..).unwrap()?
nav_panics(cs, tags, values) ==
    position_unwrap_fails(get_order_or_insert(cs, tags, values).order[tags])

\* ============================================================ state machines

\* tag lists without a repeated tag, at most NumTags long
TagSetLists ==
    {ts \in SeqsUpTo(Tags, NumTags) :
        \A i, j \in DOMAIN ts : ts[i] = ts[j] => i = j}

\* the layouts a tag set of the model can carry
TagSetLayouts ==
    {[kind |-> k, master_factor |-> 50, inverted |-> inv, fixed |-> FALSE] :
        k \in {"HStack", "VStack"}, inv \in BOOLEAN}

\* master factors tried by the layout machine
MasterFactors == {0, 1, 33, 50, 70, 99, 100, 255}

\* screen extents and offsets tried by the layout machine
ScreenExtents == {3, 640, 1080, 1440, 1920}
ScreenOffsets == {0, 16}

\* the values the variables of the other machines keep while one machine runs
ClientIdle == client = Client_new(1, <<1>>)
RegistryIdle == clients = ClientSet_new
StackIdle == tag_stack = TagStack_new /\ pushed = None
LayoutIdle ==
    /\ layout = HStack_default
    /\ screen = [offset_x |-> 0, offset_y |-> 0, width |-> 640, height |-> 640]
    /\ num_windows = 0
    /\ geometries = None
    /\ query = None
WmIdle ==
    /\ mode = 0
    /\ visible_windows = <<>>
    /\ focused_window = None
    /\ unmanaged_windows = <<>>
    /\ trace = <<>>
    /\ handled = 0

\* -------------------------------------------------- the Client on its own

InitClient ==
    /\ status = "running"
    /\ overflow_checks = FALSE
    /\ client \in {Client_new(w, ts) :
                     w \in RegWindows, ts \in SeqsUpTo(Tags, MaxTagLen) \ {<<>>}}
    /\ RegistryIdle /\ StackIdle /\ LayoutIdle /\ WmIdle

clientFrame ==
    <<status, overflow_checks, clients, stackVars, layoutVars, mode,
      visible_windows, focused_window, unmanaged_windows, handled>>

\* client.set_tags(tags); trace keeps the call, its argument and the tags the
\* client had before
SetTags(tags) ==
    /\ client' = Client_set_tags(client, tags)
    /\ trace' = <<[op |-> "set_tags", window |-> client.window,
                   geom |-> [arg |-> tags, before |-> client.tags]]>>
    /\ UNCHANGED clientFrame

\* client.toggle_tag(tag); trace as for set_tags
ToggleTag(tag) ==
    /\ client' = Client_toggle_tag(client, tag)
    /\ trace' = <<[op |-> "toggle_tag", window |-> client.window,
                   geom |-> [arg |-> <<tag>>, before |-> client.tags]]>>
    /\ UNCHANGED clientFrame

NextClient ==
    \/ \E tags \in SeqsUpTo(Tags, MaxTagLen) : SetTags(tags)
    \/ \E tag \in Tags : ToggleTag(tag)

SpecClient == InitClient /\ [][NextClient]_vars

\* ------------------------------------------------ the ClientSet on its own

\* does no view entry hold a reference that no longer resolves?
NoDead(cs) == \A k \in DOMAIN cs.order : Dead \notin Range(cs.order[k].refs)

\* one entry of the trace
Ev(op, window, geom) == [op |-> op, window |-> window, geom |-> geom]

\* a trace entry that names no window
NoWindow == 0

InitRegistry ==
    /\ status = "running"
    /\ overflow_checks = FALSE
    /\ clients = ClientSet_new
    /\ ClientIdle /\ StackIdle /\ LayoutIdle /\ WmIdle

\* may a call that looks these tags up run, the model keeping at most cap
\* view entries?
MayLookUp(tags, cap) ==
    tags \in DOMAIN clients.order \/ Cardinality(DOMAIN clients.order) < cap

\* what the registry machine leaves alone; its trace holds the call made last
\* and, for remove and update_client, the value it returned
regFrame ==
    <<overflow_checks, clientVars, stackVars, layoutVars, mode, visible_windows,
      focused_window, unmanaged_windows, handled>>

\* clients.add(Client::new(window, tags, props)) for a window not yet owned
Add(window, tags) ==
    /\ status = "running"
    /\ window \notin Owned(clients)
    /\ clients' = ClientSet_add(clients, Client_new(window, tags))
    /\ trace' = <<Ev("add", window, None)>>
    /\ UNCHANGED <<status, regFrame>>

\* clients.add(..) for a window the registry already owns
AddAgain(window, tags) ==
    /\ status = "running"
    /\ window \in Owned(clients)
    /\ \A k \in DOMAIN clients.order : Len(clients.order[k].refs) < MaxRefs
    /\ clients' = ClientSet_add(clients, Client_new(window, tags))
    /\ trace' = <<Ev("add", window, None)>>
    /\ UNCHANGED <<status, regFrame>>

\* clients.remove(window)
Remove(window) ==
    /\ status = "running"
    /\ clients' = ClientSet_remove(clients, window)
    /\ trace' = <<Ev("remove", window, Some(ClientSet_remove_result(clients, window)))>>
    /\ UNCHANGED <<status, regFrame>>

\* clients.get_order_or_insert(tags)
GetOrderOrInsert(tags, cap) ==
    /\ status = "running"
    /\ MayLookUp(tags, cap)
    /\ \E values \in ValuesOrdersFor(clients, tags) :
          clients' = get_order_or_insert(clients, tags, values)
    /\ trace' = <<Ev("get_order_or_insert", NoWindow, None)>>
    /\ UNCHANGED <<status, regFrame>>

\* clients.update_client(window, |c| c.toggle_tag(tag))
UpdateToggleTag(window, tag) ==
    /\ status = "running"
    /\ window \in Owned(clients)
    /\ clients' = update_client(clients, window,
                                Client_toggle_tag(clients.clients[window], tag))
    /\ trace' = <<Ev("update_client", window,
                   update_client_result(clients, window, "Redraw"))>>
    /\ UNCHANGED <<status, regFrame>>

\* clients.update_client(window, |c| c.set_tags(tags))
UpdateSetTags(window, tags) ==
    /\ status = "running"
    /\ window \in Owned(clients)
    /\ clients' = update_client(clients, window,
                                Client_set_tags(clients.clients[window], tags))
    /\ trace' = <<Ev("update_client", window,
                   update_client_result(clients, window, "Redraw"))>>
    /\ UNCHANGED <<status, regFrame>>

\* clients.update_client(window, ..) for a window the registry does not own
UpdateUnknown(window) ==
    /\ status = "running"
    /\ window \notin Owned(clients)
    /\ clients' = update_client(clients, window, Client_new(window, <<>>))
    /\ trace' = <<Ev("update_client", window,
                   update_client_result(clients, window, "Redraw"))>>
    /\ UNCHANGED <<status, regFrame>>

\* the navigation calls, by name: those that read tagset.tags alone and those
\* that also ask tagset.layout
OffsetNavNames == {"focus_next", "focus_prev", "swap_next", "swap_prev",
                   "swap_master"}
DirectionNavNames == {"focus_right", "swap_right", "focus_left", "swap_left",
                      "focus_top", "swap_top", "focus_bottom", "swap_bottom"}

\* the tag lists clients are added with and views are looked up by
ClientTagLists == {ts \in TagSetLists : ts # <<>> /\ \A i \in 1..(Len(ts) - 1) : ts[i] < ts[i + 1]}
ViewKeys == TagSetLists \ {<<>>}

\* the registry after the navigation call named nav on tagset
navigate(cs, nav, tagset, values) ==
    CASE nav = "focus_next" -> ClientSet_focus_next(cs, tagset.tags, values)
      [] nav = "focus_prev" -> ClientSet_focus_prev(cs, tagset.tags, values)
      [] nav = "swap_next" -> ClientSet_swap_next(cs, tagset.tags, values)
      [] nav = "swap_prev" -> ClientSet_swap_prev(cs, tagset.tags, values)
      [] nav = "focus_right" -> ClientSet_focus_right(cs, tagset, values)
      [] nav = "swap_right" -> ClientSet_swap_right(cs, tagset, values)
      [] nav = "focus_left" -> ClientSet_focus_left(cs, tagset, values)
      [] nav = "swap_left" -> ClientSet_swap_left(cs, tagset, values)
      [] nav = "focus_top" -> ClientSet_focus_top(cs, tagset, values)
      [] nav = "swap_top" -> ClientSet_swap_top(cs, tagset, values)
      [] nav = "focus_bottom" -> ClientSet_focus_bottom(cs, tagset, values)
      [] nav = "swap_bottom" -> ClientSet_swap_bottom(cs, tagset, values)
      [] OTHER -> ClientSet_swap_master(cs, tagset, values)

\* clients.<nav>(tagset)
Navigate(nav, tagset, cap) ==
    /\ status = "running"
    /\ MayLookUp(tagset.tags, cap)
    /\ \E values \in ValuesOrdersFor(clients, tagset.tags) :
          IF nav_panics(clients, tagset.tags, values)
          THEN status' = "panicked" /\ UNCHANGED clients
          ELSE /\ clients' = navigate(clients, nav, tagset, values)
               /\ UNCHANGED status
    /\ trace' = <<[op |-> nav, window |-> 0, geom |-> tagset.tags]>>
    /\ UNCHANGED regFrame

NextRegistry ==
    \/ \E w \in RegWindows, tags \in ClientTagLists : Add(w, tags)
    \/ \E w \in RegWindows : Remove(w)
    \/ \E tags \in ViewKeys : GetOrderOrInsert(tags, MaxViews)
    \/ \E w \in RegWindows, tag \in Tags : UpdateToggleTag(w, tag)
    \/ \E w \in RegWindows, tags \in ClientTagLists \cup {<<>>} :
          UpdateSetTags(w, tags)
    \/ \E w \in RegWindows : UpdateUnknown(w)
    \/ \E nav \in OffsetNavNames, tags \in ViewKeys :
          Navigate(nav, TagSet_new(tags, HStack_default), MaxViews)
    \/ \E nav \in DirectionNavNames, tags \in ViewKeys, l \in TagSetLayouts :
          Navigate(nav, TagSet_new(tags, l), MaxViews)

SpecRegistry == InitRegistry /\ [][NextRegistry]_vars

\* the registry under add and remove alone, add also of windows already owned
NextAddRemove ==
    \/ \E w \in RegWindows, tags \in ClientTagLists : Add(w, tags)
    \/ \E w \in RegWindows, tags \in ClientTagLists : AddAgain(w, tags)
    \/ \E w \in RegWindows : Remove(w)
    \/ \E tags \in ViewKeys : GetOrderOrInsert(tags, MaxViews)

SpecAddRemove == InitRegistry /\ [][NextAddRemove]_vars

\* the keys of the views of the update machine
UpdateKeys == {<<1>>, <<2>>, <<1, 2>>}

\* the registry under add (also of a window already owned, while no view
\* holds a reference that no longer resolves), remove and the lookups, with
\* the focus of a view moved by focus_next
NextRemove ==
    \/ \E w \in Windows, tags \in ClientTagLists : Add(w, tags)
    \/ \E w \in Windows, tags \in ClientTagLists :
          NoDead(clients) /\ AddAgain(w, tags)
    \/ \E w \in Windows : Remove(w)
    \/ \E tags \in UpdateKeys : GetOrderOrInsert(tags, MaxViews)
    \/ \E tags \in UpdateKeys :
          Navigate("focus_next", TagSet_new(tags, HStack_default), MaxViews)

SpecRemove == InitRegistry /\ [][NextRemove]_vars

\* the registry under add, remove, update_client and the lookups, with the
\* focus and the order of a view moved by focus_next and swap_next
NextUpdate ==
    \/ \E w \in Windows, tags \in ClientTagLists : Add(w, tags)
    \/ \E w \in Windows : Remove(w)
    \/ \E tags \in UpdateKeys : GetOrderOrInsert(tags, MaxViews)
    \/ \E w \in Windows, tag \in Tags : UpdateToggleTag(w, tag)
    \/ \E w \in Windows, tags \in ClientTagLists \cup {<<>>} :
          UpdateSetTags(w, tags)
    \/ \E w \in Windows : UpdateUnknown(w)
    \/ \E nav \in {"focus_next", "swap_next"}, tags \in UpdateKeys :
          Navigate(nav, TagSet_new(tags, HStack_default), MaxViews)

SpecUpdate == InitRegistry /\ [][NextUpdate]_vars

\* the tag lists of the clients and the keys of the view of the navigation
\* machine
NavTagLists == {<<1>>, <<2>>, <<1, 2>>}
NavKeys == {<<1>>, <<2>>, <<1, 2>>, <<2, 1>>}

\* offset navigation on one view of up to NumWindows members
NextNav ==
    \/ \E w \in Windows, tags \in NavTagLists : Add(w, tags)
    \/ \E w \in Windows : Remove(w)
    \/ \E tags \in NavKeys : GetOrderOrInsert(tags, 1)
    \/ \E nav \in OffsetNavNames, tags \in NavKeys :
          Navigate(nav, TagSet_new(tags, HStack_default), 1)

SpecNav == InitRegistry /\ [][NextNav]_vars

\* the keys of the views of the direction machine
DirectionKeys == {<<1>>, <<2>>}

\* the layout of the tag set shown with these tags: tag 1 is laid out as a
\* horizontal stack and tag 2 as a vertical stack, either of them inverted or
\* not
DirectionLayout(tags, inv) ==
    [kind |-> IF tags = <<1>> THEN "HStack" ELSE "VStack",
     master_factor |-> 50, inverted |-> inv, fixed |-> FALSE]

\* the registry under add, remove, update_client and every navigation call,
\* on views of up to NumWindows members
NextDirection ==
    \/ \E w \in Windows, tags \in NavTagLists : Add(w, tags)
    \/ \E w \in Windows : Remove(w)
    \/ \E tags \in DirectionKeys : GetOrderOrInsert(tags, MaxViews)
    \/ \E w \in Windows, tags \in NavTagLists : UpdateSetTags(w, tags)
    \/ \E nav \in OffsetNavNames, tags \in DirectionKeys :
          Navigate(nav, TagSet_new(tags, HStack_default), MaxViews)
    \/ \E nav \in DirectionNavNames, tags \in DirectionKeys,
          inv \in BOOLEAN :
          Navigate(nav, TagSet_new(tags, DirectionLayout(tags, inv)), MaxViews)

SpecDirection == InitRegistry /\ [][NextDirection]_vars
\* ------------------------------------------------------------ the dispatcher
\* A Wm value is [clients, tag_stack, mode, visible_windows, focused_window,
\* unmanaged_windows, trace, status].  trace lists, in order, what the handling
\* of one event called and requested of the X server: every entry is
\* [op, window, geom].  env is what the environment decides during one event:
\* env.values, the order in which the client HashMap enumerates its values, and
\* env.focus_ok, whether the X server accepts set_input_focus.

\* Tag::default()
DefaultTag == 1

\* Mode::default()
DefaultMode == 0

\* the screen the window manager was started on
WmScreen == [offset_x |-> 0, offset_y |-> 0, width |-> 800, height |-> 600]

\* Wm::new followed by setup_tags(stack)
Wm_new(stack) ==
    [clients |-> ClientSet_new, tag_stack |-> stack, mode |-> DefaultMode,
     visible_windows |-> <<>>, focused_window |-> None,
     unmanaged_windows |-> <<>>, trace |-> <<>>, status |-> "setup"]

\* VStack::new_window_as_master
VStack_new_window_as_master == FALSE

\* Layout::new_window_as_master as the trait provides it to a layout that does
\* not define it, such as HStack: the policy flag defaults to false
Layout_new_window_as_master_default == FALSE

\* new_window_as_master of the single-window layout
Monocle_new_window_as_master == TRUE

\* layout.new_window_as_master() through the Layout trait object
Layout_new_window_as_master(l) ==
    IF l.kind = "VStack" THEN VStack_new_window_as_master
    ELSE IF l.kind = "Monocle" THEN Monocle_new_window_as_master
    ELSE Layout_new_window_as_master_default

\* Wm::new_window_as_master
Wm_new_window_as_master(wm) ==
    IF current(wm.tag_stack) # None
    THEN Layout_new_window_as_master(current(wm.tag_stack)[1].layout)
    ELSE FALSE

\* no offscreen request is sent for the windows
hide_windows_skipped(wm, windows) == wm
\* Wm::hide_windows: one offscreen configure request per window
hide_windows(wm, windows) ==
    [wm EXCEPT !.trace = @ \o [i \in DOMAIN windows |->
                                 Ev("hide", windows[i], None)]]

\* the indices of the members arrange_windows places: the reference resolves
\* and the layout gave it a rectangle
PlacedIndices(refs, geoms) ==
    {i \in DOMAIN refs \cap DOMAIN geoms : upgrade(refs[i]) /\ geoms[i] # None}

\* configure requests that hand the rectangles out from the last member on
PlaceAll_backwards(refs, geoms, i) ==
    [j \in 1..(IF Len(refs) < Len(geoms) THEN Len(refs) ELSE Len(geoms)) |->
        Ev("place", refs[Len(refs) + 1 - j], geoms[j])]

RECURSIVE PlaceAll(_, _, _)
\* the configure requests of arrange_windows for the members from index i on
PlaceAll(refs, geoms, i) ==
    IF i > Len(refs) \/ i > Len(geoms) THEN <<>>
    ELSE (IF i \in PlacedIndices(refs, geoms)
          THEN <<Ev("place", refs[i], geoms[i])>> ELSE <<>>)
         \o PlaceAll(refs, geoms, i + 1)

\* Wm::arrange_windows
arrange_windows(wm, env) ==
    LET wm1 == hide_windows([wm EXCEPT !.trace = Append(@, Ev("arrange", NoWindow, None))],
                            wm.visible_windows)
        wm2 == [wm1 EXCEPT !.visible_windows = <<>>]
    IN IF current(wm.tag_stack) = None THEN wm2
       ELSE LET tagset == current(wm.tag_stack)[1]
                cs1 == get_order_or_insert(wm.clients, tagset.tags, env.values)
                refs == cs1.order[tagset.tags].refs
                arranged == arrange(tagset.layout, Len(refs), WmScreen)
                placed == PlaceAll(refs, arranged.res, 1)
            IN IF arranged.div0 \/ (overflow_checks /\ arranged.ovf)
               THEN [wm2 EXCEPT !.clients = cs1, !.status = "panicked"]
               ELSE [wm2 EXCEPT !.clients = cs1,
                                !.visible_windows =
                                    [i \in DOMAIN placed |-> placed[i].window],
                                !.trace = @ \o placed]

\* Wm::reset_focus, the layout wanting new windows as master: the focused
\* window is swapped into the master slot and the windows are arranged again
master_first(wm, env) ==
    LET tagset == current(wm.tag_stack)[1]
    IN IF ~Wm_new_window_as_master(wm) THEN wm
       ELSE IF nav_panics(wm.clients, tagset.tags, env.values)
       THEN [wm EXCEPT !.status = "panicked"]
       ELSE arrange_windows(
                [wm EXCEPT !.clients = ClientSet_swap_master(@, tagset, env.values)],
                env)

\* Wm::reset_focus, the border of the old window and the focus on the new one;
\* focused_window is assigned when the set_input_focus request succeeds
focus_window(wm, new, env) ==
    IF wm.status # "running" THEN wm
    ELSE [wm EXCEPT !.trace =
                        (IF wm.focused_window # None
                         THEN Append(@, Ev("unfocus", wm.focused_window[1], None))
                         ELSE @) \o <<Ev("focus", new, None)>>,
                    !.focused_window = IF env.focus_ok THEN Some(new) ELSE @]

\* Wm::reset_focus
reset_focus(wm, env) ==
    LET new == IF current(wm.tag_stack) = None THEN None
               ELSE get_focused_window(wm.clients, current(wm.tag_stack)[1].tags)
    IN IF new = None
       THEN [wm EXCEPT !.trace = Append(@, Ev("reset_focus", NoWindow, None))]
       ELSE focus_window(
                master_first(
                    [wm EXCEPT !.trace = Append(@, Ev("reset_focus", NoWindow, None))],
                    env),
                new[1], env)

\* Wm::destroy_window
destroy_window(wm, window) ==
    [wm EXCEPT !.trace = Append(@, Ev("destroy", window, None))]

\* Wm::construct_client; props is "none" when the properties cannot be
\* fetched, "dock" for a window of type _NET_WM_WINDOW_TYPE_DOCK, "normal"
\* otherwise; matched is what the matching closure returns for the properties
construct_client(wm, window, props, matched) ==
    IF props = "none" THEN None
    ELSE IF props # "dock"
    THEN LET tags == IF matched # None THEN matched[1]
                     ELSE IF current(wm.tag_stack) # None
                     THEN current(wm.tag_stack)[1].tags
                     ELSE <<DefaultTag>>
         IN Some(Client_new(window, tags))
    ELSE None

\* Wm::add_client
add_client(wm, c, env) ==
    LET added == [wm EXCEPT !.clients = ClientSet_add(@, c)]
    IN IF current(wm.tag_stack) # None /\ Wm_new_window_as_master(added)
       THEN LET tagset == current(wm.tag_stack)[1]
            IN IF nav_panics(added.clients, tagset.tags, env.values)
               THEN [added EXCEPT !.status = "panicked"]
               ELSE [added EXCEPT !.clients =
                        ClientSet_swap_master(@, tagset, env.values)]
       ELSE added

\* an add_unmanaged that also lists the window as visible
add_unmanaged_shown(wm, window) ==
    [wm EXCEPT !.unmanaged_windows = Append(@, window),
               !.visible_windows = Append(@, window)]

\* Wm::add_unmanaged
add_unmanaged(wm, window) ==
    [wm EXCEPT !.unmanaged_windows = Append(@, window)]

\* the next statement is self.arrange_windows(): it runs unless the thread has
\* already panicked
then_arrange_windows(wm, env) ==
    IF wm.status # "running" THEN wm ELSE arrange_windows(wm, env)

\* the next statement is self.reset_focus()
then_reset_focus(wm, env) ==
    IF wm.status # "running" THEN wm ELSE reset_focus(wm, env)

\* self.visible_windows.push(window)
show(wm, window) ==
    IF wm.status # "running" THEN wm
    ELSE [wm EXCEPT !.visible_windows = Append(@, window)]

\* Wm::handle_map_request
handle_map_request(wm, window, props, matched, env) ==
    LET c == construct_client(wm, window, props, matched)
        mapped == [wm EXCEPT !.trace = Append(@, Ev("map", window, None))]
    IN IF get_client_by_window(wm.clients, window) # None THEN wm
       ELSE IF c = None THEN add_unmanaged(mapped, window)
       ELSE then_reset_focus(
                then_arrange_windows(
                    show(add_client(mapped, c[1], env), window), env),
                env)

\* v.swap_remove(index), 1-based: the last element takes the removed one's place
SwapRemove(v, index) ==
    IF index = Len(v) THEN SubSeq(v, 1, Len(v) - 1)
    ELSE SubSeq([v EXCEPT ![index] = v[Len(v)]], 1, Len(v) - 1)

\* the tail of Wm::handle_destroy_notify: the window leaves unmanaged_windows
forget_unmanaged(wm, window) ==
    LET index == Position(wm.unmanaged_windows, window)
    IN IF wm.status # "running" \/ index = 0 THEN wm
       ELSE [wm EXCEPT !.unmanaged_windows = SwapRemove(@, index)]

\* Wm::handle_destroy_notify
handle_destroy_notify(wm, window, env) ==
    forget_unmanaged(
        then_arrange_windows(
            reset_focus([wm EXCEPT !.clients = ClientSet_remove(@, window)], env),
            env),
        window)

\* the callbacks bound to keys: closures over (&mut ClientSet, &mut TagStack)
\* built from the registry's and the tag stack's public calls
Callbacks ==
    {[name |-> n, arg |-> <<>>] :
        n \in {"none", "focus_next", "focus_prev", "swap_next", "swap_master",
               "swap_top"}}
    \cup {[name |-> n, arg |-> <<t>>] :
            n \in {"toggle_tag", "move_to_tag", "toggle_show_tag", "push_tagset"},
            t \in Tags}

\* the commands a callback can return
Commands ==
    {[cmd |-> c, arg |-> 0] : c \in {"Redraw", "Focus", "Quit", "NoCommand"}}
    \cup {[cmd |-> "Kill", arg |-> w] : w \in RegWindows}
    \cup {[cmd |-> "ModeSwitch", arg |-> m] : m \in {0, 1}}

\* does the callback fail an unwrap?
callback_panics(wm, cb, env) ==
    /\ cb.name \in {"focus_next", "focus_prev", "swap_next", "swap_master"}
    /\ current(wm.tag_stack) # None
    /\ nav_panics(wm.clients, current(wm.tag_stack)[1].tags, env.values)

\* the registry and the tag stack after the callback has run
run_callback(wm, cb, env) ==
    LET cur == current(wm.tag_stack)
        focused == IF cur = None THEN None
                   ELSE get_focused_window(wm.clients, cur[1].tags)
        top == Len(wm.tag_stack)
    IN CASE cb.name \in {"focus_next", "focus_prev", "swap_next", "swap_master"}
              /\ cur # None ->
              [wm EXCEPT !.clients = navigate(@, cb.name, cur[1], env.values)]
         [] cb.name = "toggle_tag" /\ focused # None ->
              [wm EXCEPT !.clients =
                  update_client(@, focused[1],
                      Client_toggle_tag(wm.clients.clients[focused[1]], cb.arg[1]))]
         [] cb.name = "move_to_tag" /\ focused # None ->
              [wm EXCEPT !.clients =
                  update_client(@, focused[1],
                      Client_set_tags(wm.clients.clients[focused[1]], cb.arg))]
         [] cb.name = "toggle_show_tag" /\ cur # None ->
              [wm EXCEPT !.tag_stack[top] = TagSet_toggle_tag(@, cb.arg[1])]
         [] cb.name = "push_tagset" ->
              [wm EXCEPT !.tag_stack =
                  TagStack_push(@, TagSet_new(cb.arg, VStack_default))]
         [] cb.name = "swap_top" ->
              [wm EXCEPT !.tag_stack = TagStack_swap_top(@)]
         [] OTHER -> wm

\* the interpretation of the command a callback returned
interpret(wm, command, env) ==
    CASE command.cmd = "Redraw" ->
           then_reset_focus(arrange_windows(wm, env), env)
      [] command.cmd = "Focus" -> reset_focus(wm, env)
      [] command.cmd = "Kill" -> destroy_window(wm, command.arg)
      [] command.cmd = "ModeSwitch" -> [wm EXCEPT !.mode = command.arg]
      [] command.cmd = "Quit" -> [wm EXCEPT !.status = "exited"]
      [] OTHER -> wm

\* Wm::handle_state_notify for a key bound to callback cb that returns command
handle_state_notify(wm, cb, command, env) ==
    IF callback_panics(wm, cb, env) THEN [wm EXCEPT !.status = "panicked"]
    ELSE interpret(run_callback(wm, cb, env), command, env)

\* what get_properties and the matching closure can answer for a window
PropsAnswers == {"none", "dock", "normal"}
MatchAnswers == {None} \cup {Some(ts) : ts \in ClientTagLists \cup {<<>>}}

RECURSIVE setup_each(_, _, _)
\* the loop of Wm::setup_clients over the windows left to visit; each child is
\* [window, props, matched]
setup_each(wm, children, env) ==
    IF children = <<>> \/ wm.status # "running" THEN wm
    ELSE LET child == Head(children)
             c == construct_client(wm, child.window, child.props, child.matched)
         IN IF c # None
            THEN setup_each(show(add_client(wm, c[1], env), child.window),
                            Tail(children), env)
            ELSE setup_each(wm, Tail(children), env)

\* Wm::setup_clients; children is what query_tree answers, None when the
\* request fails
setup_clients(wm, children, env) ==
    IF children = None THEN wm
    ELSE then_reset_focus(
             then_arrange_windows(setup_each(wm, children[1], env), env), env)

\* the Wm value the variables hold as the handling of an event starts; trace
\* collects the calls of that one event
WmNow ==
    [clients |-> clients, tag_stack |-> tag_stack, mode |-> mode,
     visible_windows |-> visible_windows, focused_window |-> focused_window,
     unmanaged_windows |-> unmanaged_windows, trace |-> <<>>,
     status |-> status]

\* the variables after the handling of an event has left the Wm value wm
WmBecomes(wm) ==
    /\ clients' = wm.clients
    /\ tag_stack' = wm.tag_stack
    /\ mode' = wm.mode
    /\ visible_windows' = wm.visible_windows
    /\ focused_window' = wm.focused_window
    /\ unmanaged_windows' = wm.unmanaged_windows
    /\ trace' = wm.trace
    /\ handled' = handled + 1
    /\ status' = wm.status
    /\ UNCHANGED <<overflow_checks, client, pushed, layoutVars>>

\* the tag stacks setup_tags is called with
InitialStacks ==
    {<<>>} \cup {<<TagSet_new(<<DefaultTag>>, l)>> :
                   l \in {HStack_default, VStack_default, Monocle_default}}

\* what the environment decides during the handling of one event: the order
\* in which self.clients.values() enumerates the windows (the clients owned
\* at the time of the enumeration are visited in this order) and whether the
\* set_input_focus request succeeds
Envs == [values : Perms(RegWindows), focus_ok : BOOLEAN]

\* the children query_tree can answer with: distinct windows, each with the
\* answers its property lookup and the matcher give
ChildLists ==
    {cl \in SeqsUpTo([window : RegWindows, props : PropsAnswers,
                      matched : MatchAnswers], NumRegWindows) :
        \A i, j \in DOMAIN cl : cl[i].window = cl[j].window => i = j}

Init ==
    /\ \E stack \in InitialStacks :
          /\ clients = Wm_new(stack).clients
          /\ tag_stack = stack
          /\ mode = Wm_new(stack).mode
          /\ visible_windows = Wm_new(stack).visible_windows
          /\ focused_window = Wm_new(stack).focused_window
          /\ unmanaged_windows = Wm_new(stack).unmanaged_windows
          /\ trace = Wm_new(stack).trace
          /\ handled = 0
          /\ status = Wm_new(stack).status
    /\ overflow_checks = FALSE
    /\ ClientIdle /\ pushed = None /\ LayoutIdle

\* the startup enumeration
SetupClients(children) ==
    /\ status = "setup"
    /\ \E env \in Envs :
          WmBecomes(setup_clients([WmNow EXCEPT !.status = "running"], children,
                                  env))

\* a MapRequest event for window
MapRequest(window, props, matched) ==
    /\ status = "running"
    /\ handled <= MaxEvents
    /\ \/ Len(unmanaged_windows) < MaxUnmanaged
       \/ construct_client(WmNow, window, props, matched) # None
    /\ \E env \in Envs :
          WmBecomes(handle_map_request(WmNow, window, props, matched, env))

\* a DestroyNotify event for window
DestroyNotify(window) ==
    /\ status = "running"
    /\ handled <= MaxEvents
    /\ \E env \in Envs : WmBecomes(handle_destroy_notify(WmNow, window, env))

\* a key press bound to callback cb, which returns command
KeyEvent(cb, command) ==
    /\ status = "running"
    /\ handled <= MaxEvents
    /\ cb.name = "push_tagset" => Len(tag_stack) < MaxStack
    /\ \E env \in Envs : WmBecomes(handle_state_notify(WmNow, cb, command, env))

Next ==
    \/ \E children \in {None} \cup {Some(cl) : cl \in ChildLists} :
          SetupClients(children)
    \/ \E window \in RegWindows, props \in PropsAnswers, matched \in MatchAnswers :
          MapRequest(window, props, matched)
    \/ \E window \in RegWindows : DestroyNotify(window)
    \/ \E cb \in Callbacks, command \in Commands : KeyEvent(cb, command)

Spec == Init /\ [][Next]_vars

\* ------------------------------------- the dispatcher and unmanaged windows
\* Map requests and destroy notifications alone, one event more than the
\* dispatcher machine handles and one more unmanaged window; the trace of an
\* event starts with the event itself.

\* a MapRequest event for window, matched by no rule
MapRequestUnmatched(window, props) ==
    /\ status = "running"
    /\ handled <= MaxEvents + 1
    /\ \/ Len(unmanaged_windows) <= MaxUnmanaged
       \/ construct_client(WmNow, window, props, None) # None
    /\ \E env \in Envs :
          WmBecomes(handle_map_request(
              [WmNow EXCEPT !.trace = <<Ev("map_request", window, None)>>],
              window, props, None, env))

\* a DestroyNotify event for window
DestroyNotifyOf(window) ==
    /\ status = "running"
    /\ handled <= MaxEvents + 1
    /\ \E env \in Envs :
          WmBecomes(handle_destroy_notify(
              [WmNow EXCEPT !.trace = <<Ev("destroy_notify", window, None)>>],
              window, env))

NextUnmanaged ==
    \/ \E children \in {None, Some(<<>>)} : SetupClients(children)
    \/ \E window \in RegWindows, props \in PropsAnswers :
          MapRequestUnmatched(window, props)
    \/ \E window \in RegWindows : DestroyNotifyOf(window)

SpecUnmanaged == Init /\ [][NextUnmanaged]_vars
\* ----------------------------------------------- the TagStack on its own

\* the tag sets pushed in the model
PushTagSets ==
    {TagSet_new(<<1>>, HStack_default), TagSet_new(<<2>>, HStack_default),
     TagSet_new(<<1, 2>>, VStack_default)}

\* the tags toggled on the current tag set in the model
ToggledTags == {1, 2}

\* the indices swap_nth is called with
SwapIndices == 0..PushLimit

InitTagStack ==
    /\ status = "running"
    /\ overflow_checks = FALSE
    /\ tag_stack = TagStack_new
    /\ pushed = Some(<<>>)
    /\ ClientIdle /\ RegistryIdle /\ LayoutIdle /\ WmIdle

stackFrame == <<status, overflow_checks, client, clients, layoutVars, wmVars>>

\* tag_stack.push(tagset)
Push(tagset) ==
    /\ tag_stack' = TagStack_push(tag_stack, tagset)
    /\ pushed' = IF pushed # None /\ Len(pushed[1]) < MaxPushes
                 THEN Some(Append(pushed[1], tagset))
                 ELSE None
    /\ UNCHANGED stackFrame

\* tag_stack.swap_top()
SwapTop ==
    /\ tag_stack' = TagStack_swap_top(tag_stack)
    /\ pushed' = None
    /\ UNCHANGED stackFrame

\* tag_stack.swap_nth(index)
SwapNth(index) ==
    /\ tag_stack' = TagStack_swap_nth(tag_stack, index)
    /\ pushed' = None
    /\ UNCHANGED stackFrame

\* tag_stack.current_mut().map(|t| t.toggle_tag(tag))
ToggleCurrent(tag) ==
    /\ tag_stack' = IF tag_stack = <<>> THEN tag_stack
                    ELSE [tag_stack EXCEPT ![Len(tag_stack)] =
                                               TagSet_toggle_tag(@, tag)]
    /\ pushed' = None
    /\ UNCHANGED stackFrame

NextTagStack ==
    \/ \E tagset \in PushTagSets : Push(tagset)
    \/ SwapTop
    \/ \E index \in SwapIndices : SwapNth(index)
    \/ \E tag \in ToggledTags : ToggleCurrent(tag)

SpecTagStack == InitTagStack /\ [][NextTagStack]_vars

\* ------------------------------------------------- the layouts on their own

\* the layout values of the layout machine
Layouts ==
    [kind : {"HStack", "VStack"}, master_factor : MasterFactors,
     inverted : BOOLEAN, fixed : BOOLEAN]

\* the screens of the layout machine
Screens ==
    {[offset_x |-> o, offset_y |-> o, width |-> w, height |-> h] :
        o \in ScreenOffsets, w \in ScreenExtents, h \in ScreenExtents}

InitLayout ==
    /\ status = "running"
    /\ overflow_checks \in BOOLEAN
    /\ layout \in Layouts
    /\ screen \in Screens
    /\ num_windows = 0
    /\ geometries = None
    /\ query = None
    /\ ClientIdle /\ RegistryIdle /\ StackIdle /\ WmIdle

layoutFrame ==
    <<overflow_checks, layout, screen, client, clients, stackVars, wmVars>>

\* layout.arrange(num, &screen); a checked overflow or a division by zero
\* panics, and then nothing is returned
Arrange(num) ==
    /\ status = "running"
    /\ LET arranged == arrange(layout, num, screen)
       IN IF arranged.div0 \/ (overflow_checks /\ arranged.ovf)
          THEN /\ status' = "panicked"
               /\ geometries' = None
          ELSE /\ status' = status
               /\ geometries' = Some(arranged.res)
    /\ num_windows' = num
    /\ query' = None
    /\ UNCHANGED layoutFrame

\* the four direction queries for index on a view of num members, as the
\* registry calls them: with max = num - 1
Query(index, num) ==
    /\ status = "running"
    /\ index < num
    /\ query' = Some([index |-> index,
                      right |-> right_window(layout, index, num - 1),
                      left |-> left_window(layout, index, num - 1),
                      top |-> top_window(layout, index, num - 1),
                      bottom |-> bottom_window(layout, index, num - 1)])
    /\ num_windows' = num
    /\ geometries' = None
    /\ UNCHANGED <<status, layoutFrame>>

NextLayout ==
    \/ \E num \in 0..MaxMembers : Arrange(num)
    \/ \E num \in 1..MaxMembers, index \in 0..(MaxMembers - 1) : Query(index, num)

SpecLayout == InitLayout /\ [][NextLayout]_vars

\* ------------------------------------------- the layout messages of VStack

\* the messages sent to the layout in the model
EditMessages ==
    {[kind |-> "MasterFactorAbs", value |-> v] : v \in 0..(U8Mod - 1)}
    \cup {[kind |-> "MasterFactorRel", value |-> d] : d \in I8}
    \cup {[kind |-> "FixedAbs", value |-> f] : f \in BOOLEAN}
    \cup {[kind |-> "FixedRel", value |-> 0]}

InitEdit ==
    /\ status = "running"
    /\ overflow_checks \in BOOLEAN
    /\ layout \in {[VStack_default EXCEPT !.master_factor = f] :
                       f \in 0..(U8Mod - 1)}
    /\ screen = [offset_x |-> 0, offset_y |-> 0, width |-> 640, height |-> 640]
    /\ num_windows = 0
    /\ geometries = None
    /\ query = None
    /\ ClientIdle /\ RegistryIdle /\ StackIdle /\ WmIdle

\* layout.edit_layout(msg)
EditLayout(msg) ==
    /\ status = "running"
    /\ LET edited == VStack_edit_layout(layout, msg, overflow_checks)
       IN IF edited.panic
          THEN status' = "panicked" /\ layout' = layout
          ELSE status' = status /\ layout' = edited.layout
    /\ UNCHANGED <<overflow_checks, screen, num_windows, geometries, query,
                   client, clients, stackVars, wmVars>>

NextEdit == \E msg \in EditMessages : EditLayout(msg)

SpecEdit == InitEdit /\ [][NextEdit]_vars
\* ===================================================================== claims

\* the owned clients whose tags intersect the key tags
Matching(cs, tags) == {w \in Owned(cs) : match_tags(cs.clients[w], tags)}

\* does every element of s occur once?
NoDuplicates(s) == \A i, j \in DOMAIN s : s[i] = s[j] => i = j

\* the references of an entry that still resolve
LiveRefs(entry) == SelectSeq2(entry.refs, Range(entry.refs) \ {Dead})

\* C1 as stated: after any sequence of add, remove and get_order_or_insert
\* calls every materialized entry's reference list holds exactly the owned
\* clients matching its key: each once, no reference that no longer resolves,
\* no client that does not match.
C1_Stated ==
    \A k \in DOMAIN clients.order :
        /\ NoDuplicates(clients.order[k].refs)
        /\ Range(clients.order[k].refs) = Matching(clients, k)

\* C1: at all times the resolving references of every materialized entry are
\* exactly the owned clients matching its key, each once; a reference that no
\* longer resolves enters a list only when add is called for a window that is
\* already registered (the client map keeps its windows and no entry is
\* created), and none is left after a remove of a registered window, which
\* runs the reconciliation pass clean().
C1_Reconciled ==
    /\ [](\A k \in DOMAIN clients.order :
             /\ NoDuplicates(LiveRefs(clients.order[k]))
             /\ Range(LiveRefs(clients.order[k])) = Matching(clients, k))
    /\ [][(NoDead(clients) /\ ~NoDead(clients'))
             => /\ Owned(clients') = Owned(clients)
                /\ DOMAIN clients'.order = DOMAIN clients.order]_vars
    /\ [][(Owned(clients') # Owned(clients)
           /\ Owned(clients') \subseteq Owned(clients))
             => NoDead(clients')]_vars

\* C1 witness: a window was added again and a later remove of another window
\* is still to come: an entry holds a dead reference next to a live one of a
\* matching client
C1_StaleAfterReAdd ==
    \E k \in DOMAIN clients.order :
        /\ Dead \in Range(clients.order[k].refs)
        /\ Range(LiveRefs(clients.order[k])) # {}
        /\ Range(LiveRefs(clients.order[k])) = Matching(clients, k)

\* C2: a client's tag list is never empty: toggle_tag(t) of the client's only
\* tag leaves the tag list as it is (the list <<t>> stays <<t>>, and a list
\* holding nothing but t keeps holding t), set_tags([]) leaves the tag list
\* as it is, and so the list is non-empty after any sequence of the two calls.
C2_NeverEmpty ==
    /\ client.tags # <<>>
    /\ \A t \in Tags :
          /\ client.tags = <<t>> => Client_toggle_tag(client, t).tags = client.tags
          /\ Range(client.tags) = {t}
                => Range(Client_toggle_tag(client, t).tags) = {t}
    /\ Client_set_tags(client, <<>>).tags = client.tags

\* C2 witness: the call made last was toggle_tag of the only tag, or
\* set_tags([]), and the tags are the ones the client had before
C2_LastTagKept ==
    /\ trace # <<>>
    /\ trace[1].geom.before = client.tags
    /\ \/ /\ trace[1].op = "toggle_tag"
          /\ trace[1].geom.arg = client.tags
       \/ /\ trace[1].op = "set_tags"
          /\ trace[1].geom.arg = <<>>

\* C3 as stated: in every state the dispatcher reaches, every client the
\* registry owns has at least one tag.
C3_Stated == \A w \in Owned(clients) : clients.clients[w].tags # <<>>

\* the entries of the registry the claims on navigation speak of: every
\* reference resolves and so does the focus reference
Settled(cs, k) ==
    /\ Dead \notin Range(cs.order[k].refs)
    /\ cs.order[k].focus # None
    /\ upgrade(cs.order[k].focus[1])
    /\ cs.order[k].focus[1] \in Range(cs.order[k].refs)

\* C4 as stated: on a view of n > 1 members whose focus reference resolves,
\* focus_next followed by focus_prev leaves the focus on the client focused
\* at first, and so does focus_prev followed by focus_next.
C4_Stated ==
    \A k \in DOMAIN clients.order :
        (Settled(clients, k) /\ Len(clients.order[k].refs) > 1)
            => /\ get_focused_window(
                      ClientSet_focus_prev(
                          ClientSet_focus_next(clients, k, <<>>), k, <<>>), k)
                  = get_focused_window(clients, k)
               /\ get_focused_window(
                      ClientSet_focus_next(
                          ClientSet_focus_prev(clients, k, <<>>), k, <<>>), k)
                  = get_focused_window(clients, k)

\* the 0-based index of the focused client in the sequence of view k
FocusIndex(cs, k) == Position(cs.order[k].refs, cs.order[k].focus[1]) - 1

\* the registry after n calls of swap_next on view k
RECURSIVE SwapNextTimes(_, _, _)
SwapNextTimes(cs, k, n) ==
    IF n = 0 THEN cs
    ELSE SwapNextTimes(ClientSet_swap_next(cs, k, <<>>), k, n - 1)

\* C5: swap_next twice on a view of 2 members restores the member order; on
\* a view of 3 members two calls do not restore it: every call moves the
\* focused client one position forward modulo 3, and the client is back at
\* its first position after three calls.
C5_SwapNextCycles ==
    \A k \in DOMAIN clients.order :
        Settled(clients, k) =>
            /\ Len(clients.order[k].refs) = 2
                  => SwapNextTimes(clients, k, 2).order[k].refs
                     = clients.order[k].refs
            /\ Len(clients.order[k].refs) = 3
                  => /\ SwapNextTimes(clients, k, 2).order[k].refs
                        # clients.order[k].refs
                     /\ \A n \in 0..2 :
                           FocusIndex(SwapNextTimes(clients, k, n + 1), k)
                           = (FocusIndex(SwapNextTimes(clients, k, n), k) + 1) % 3
                     /\ FocusIndex(SwapNextTimes(clients, k, 3), k)
                        = FocusIndex(clients, k)

\* C5 witness: swap_next was the call made last, on a view of 3 members
C5_SwappedOnThree ==
    /\ trace # <<>>
    /\ trace[1].op = "swap_next"
    /\ trace[1].geom \in DOMAIN clients.order
    /\ Settled(clients, trace[1].geom)
    /\ Len(clients.order[trace[1].geom].refs) = 3

\* C6 as stated: six pushes on a freshly created TagStack leave exactly 4
\* entries, the 3 oldest pushed entries discarded, the entry pushed last at
\* the end and the survivors in push order.
C6_Stated ==
    (pushed # None /\ Len(pushed[1]) = 6) =>
        /\ Len(tag_stack) = 4
        /\ Len(pushed[1]) - Len(tag_stack) = 3
        /\ tag_stack[Len(tag_stack)] = pushed[1][6]
        /\ \A i \in DOMAIN tag_stack :
              tag_stack[i] = pushed[1][i + (Len(pushed[1]) - Len(tag_stack))]

\* C6: six pushes on a freshly created TagStack leave exactly 4 entries, the
\* 2 oldest pushed entries discarded: the stack holds the third to the sixth
\* pushed entry in push order, the entry pushed last at the end.
C6_FourOfSix ==
    (pushed # None /\ Len(pushed[1]) = 6) =>
        /\ Len(tag_stack) = 4
        /\ Len(pushed[1]) - Len(tag_stack) = 2
        /\ tag_stack = SubSeq(pushed[1], 3, 6)

\* C6 witness: six pushes, and nothing else, have been made since
\* TagStack::new(), and they were not all of the same tag set
C6_SixPushed ==
    /\ pushed # None
    /\ Len(pushed[1]) = 6
    /\ pushed[1][2] # pushed[1][3]
    /\ tag_stack[1] = pushed[1][3]

\* has arrange been the call made last on the layout machine?
Arranged == query = None /\ (geometries # None \/ status = "panicked")

\* C7 as stated: HStack.arrange(1, screen) returns exactly one rectangle:
\* the full screen when fixed is false, the full screen width and the master
\* height (master_factor percent of screen.height, at most screen.height)
\* when fixed is true.
C7_Stated ==
    (layout.kind = "HStack" /\ num_windows = 1 /\ Arranged) =>
        /\ status = "running"
        /\ geometries =
              Some(<<Some([x |-> 0, y |-> 0, width |-> screen.width,
                           height |->
                               IF ~layout.fixed THEN screen.height
                               ELSE IF (layout.master_factor * screen.height) \div 100
                                       < screen.height
                               THEN (layout.master_factor * screen.height) \div 100
                               ELSE screen.height])>>)

\* C8 as stated: VStack.arrange(3, screen) with master_factor 50 returns
\* three rectangles: a master of half the screen width and two slaves of
\* height screen.height / 2 each, the slaves starting at the master width
\* when inverted is false and at the screen offset when inverted is true.
C8_Stated ==
    (layout.kind = "VStack" /\ layout.master_factor = 50 /\ num_windows = 3
     /\ Arranged) =>
        /\ status = "running"
        /\ geometries # None
        /\ Len(geometries[1]) = 3
        /\ \A i \in 1..3 : geometries[1][i] # None
        /\ geometries[1][1][1].width = screen.width \div 2
        /\ \A i \in 2..3 :
              /\ geometries[1][i][1].height = screen.height \div 2
              /\ geometries[1][i][1].x =
                    IF layout.inverted THEN screen.offset_x
                    ELSE screen.offset_x + screen.width \div 2

\* the answers of the four direction queries made last
Answers == {query[1].right, query[1].left, query[1].top, query[1].bottom}

\* C9: for HStack and VStack, both values of inverted, every member_count
\* >= 1 and every index below it, each of right_window, left_window,
\* top_window and bottom_window called with (index, member_count - 1)
\* returns None or an index below member_count; none computes index - 1 at
\* index 0.
C9_QueriesInRange ==
    query # None =>
        \A answer \in Answers :
            answer # None =>
                /\ answer[1] # Underflow
                /\ answer[1] >= 0
                /\ answer[1] < num_windows

\* C9 witness: the queries were made for index 0 of a view of several
\* members, and left_window and top_window answered None or a member
C9_AskedAtZero ==
    /\ query # None
    /\ query[1].index = 0
    /\ num_windows > 1
    /\ query[1].right # None
    /\ \/ query[1].left = None /\ layout.kind = "HStack"
       \/ query[1].top = None /\ layout.kind = "VStack"

\* C10 as stated: within the handling of one event every redraw
\* (arrange_windows) is followed by a refocus (reset_focus) before the
\* handling ends.
C10_Stated ==
    \A i \in DOMAIN trace :
        trace[i].op = "arrange"
            => \E j \in DOMAIN trace : j > i /\ trace[j].op = "reset_focus"

\* the entries of the trace that are requests to move a window: offscreen
\* (hide) or to a rectangle (place)
Intents(tr) == SelectSeq(tr, LAMBDA e : e.op \in {"hide", "place"})

\* has the handling of the last event called arrange_windows?
Redrawn == \E i \in DOMAIN trace : trace[i].op = "arrange"

\* C11 as stated: a redraw while the tag stack is empty is a no-op: it emits
\* no placement or hide intent for any window, leaves the visible-window list
\* and the registry as they are, and raises no error - for the redraws made
\* while an event is handled and for a redraw requested in the state the
\* event leaves.
C11_Stated ==
    tag_stack = <<>> =>
        /\ Redrawn => (Intents(trace) = <<>> /\ status # "panicked")
        /\ \A env \in Envs :
              /\ Intents(arrange_windows(WmNow, env).trace) = <<>>
              /\ arrange_windows(WmNow, env).visible_windows = visible_windows
              /\ arrange_windows(WmNow, env).clients = clients
              /\ arrange_windows(WmNow, env).status = status

\* the index in the trace of the redraw made last
LastArrange ==
    CHOOSE i \in DOMAIN trace :
        /\ trace[i].op = "arrange"
        /\ \A j \in DOMAIN trace : j > i => trace[j].op # "arrange"

\* the placement intents of the redraw made last, in the order of their issue
Placements ==
    SelectSeq(SubSeq(trace, LastArrange + 1, Len(trace)),
              LAMBDA e : e.op = "place")

\* the j-th smallest element of the set P of indices
NthOf(P, j) == CHOOSE i \in P : Cardinality({m \in P : m < i}) = j - 1

\* C12: during one redraw the placement intents for the members of the
\* current view are issued in the view's member order: the j-th placed
\* window is the j-th resolving member that has a rectangle, and member i
\* receives the i-th rectangle the layout's arrange returns.
C12_PlacedInMemberOrder ==
    (status = "running" /\ Redrawn /\ tag_stack # <<>>) =>
        /\ current(tag_stack)[1].tags \in DOMAIN clients.order
        /\ LET tagset == current(tag_stack)[1]
               refs == clients.order[tagset.tags].refs
               geoms == arrange(tagset.layout, Len(refs), WmScreen).res
               P == {i \in DOMAIN refs \cap DOMAIN geoms :
                        refs[i] # Dead /\ geoms[i] # None}
           IN /\ Len(Placements) = Cardinality(P)
              /\ \A j \in DOMAIN Placements :
                    /\ Placements[j].window = refs[NthOf(P, j)]
                    /\ Placements[j].geom = geoms[NthOf(P, j)]

\* C12 witness: a redraw has placed two members, the member placed first
\* being the window registered later in HashMap order (the higher id)
C12_TwoPlaced ==
    /\ status = "running"
    /\ Redrawn
    /\ Len(Placements) >= 2
    /\ Placements[1].window > Placements[2].window
    /\ Placements[1].geom # Placements[2].geom

\* C13 as stated: when a manageable window is map-requested while the current
\* tag set's layout reports new_window_as_master() = true and the new client's
\* tags intersect the current tag set, the new client is at index 0 of the
\* current view when the following redraw issues its first placement intent
\* (which is therefore for the new window), whether or not the view's entry
\* had been materialized before.
C13_Stated ==
    (/\ status = "running"
     /\ trace # <<>>
     /\ trace[1].op = "map"
     /\ trace[1].window \in Owned(clients)
     /\ tag_stack # <<>>
     /\ Layout_new_window_as_master(current(tag_stack)[1].layout)
     /\ match_tags(clients.clients[trace[1].window], current(tag_stack)[1].tags))
        => /\ current(tag_stack)[1].tags \in DOMAIN clients.order
           /\ clients.order[current(tag_stack)[1].tags].refs[1] = trace[1].window
           /\ Intents(trace) # <<>>
           /\ \E i \in DOMAIN trace :
                 /\ trace[i].op = "place"
                 /\ trace[i].window = trace[1].window
                 /\ \A j \in 1..(i - 1) : trace[j].op # "place"

\* the answers of get_properties for which construct_client gives no client:
\* the properties cannot be fetched, or the window is a dock
Unmanageable == {"none", "dock"}

\* is wm1 the Wm value wm0 with window recorded as unmanaged and nothing
\* else changed, only the map request sent to the X server?
RecordedUnmanaged(wm0, wm1, window) ==
    /\ wm1.unmanaged_windows = Append(wm0.unmanaged_windows, window)
    /\ wm1.clients = wm0.clients
    /\ wm1.visible_windows = wm0.visible_windows
    /\ wm1.focused_window = wm0.focused_window
    /\ wm1.tag_stack = wm0.tag_stack
    /\ wm1.status = wm0.status
    /\ wm1.trace = <<Ev("map", window, None)>>

\* C14 as stated: a map-request for a window that is a dock, or whose
\* properties cannot be fetched, records the window as unmanaged and changes
\* nothing else: no client is registered, no view entry changes, the
\* visible-window list is unchanged, no placement or focus intent is emitted.
C14_Stated ==
    status = "running" =>
        \A window \in RegWindows, props \in Unmanageable,
           matched \in MatchAnswers, env \in Envs :
            RecordedUnmanaged(WmNow,
                handle_map_request(WmNow, window, props, matched, env), window)

\* C14: a map-request for a window that is not registered as a client and is
\* a dock, or whose properties cannot be fetched, records the window as
\* unmanaged and changes nothing else; a map-request for a window that is
\* registered as a client changes nothing at all, whatever its properties.
C14_NewWindowUnmanaged ==
    status = "running" =>
        \A window \in RegWindows, props \in Unmanageable,
           matched \in MatchAnswers, env \in Envs :
            IF window \in Owned(clients)
            THEN handle_map_request(WmNow, window, props, matched, env) = WmNow
            ELSE RecordedUnmanaged(WmNow,
                     handle_map_request(WmNow, window, props, matched, env),
                     window)

\* C14 witness: the event handled last was the map-request of a window that
\* got no client, with a client of another window registered and shown
C14_DockMapped ==
    /\ Len(trace) = 1
    /\ trace[1].op = "map"
    /\ trace[1].window \notin Owned(clients)
    /\ unmanaged_windows # <<>>
    /\ unmanaged_windows[Len(unmanaged_windows)] = trace[1].window
    /\ Owned(clients) # {}
    /\ visible_windows # <<>>

RECURSIVE map_each(_, _, _)
\* the Wm value after one map-request for each of the children, in order
map_each(wm, children, env) ==
    IF children = <<>> \/ wm.status # "running" THEN wm
    ELSE map_each(handle_map_request(wm, Head(children).window,
                                     Head(children).props,
                                     Head(children).matched, env),
                  Tail(children), env)

\* do two Wm values agree on the registered clients, the view entries, the
\* visible-window list and the unmanaged-window list?
SameDispatcherState(wm1, wm2) ==
    /\ wm1.clients = wm2.clients
    /\ wm1.visible_windows = wm2.visible_windows
    /\ wm1.unmanaged_windows = wm2.unmanaged_windows

\* C15 as stated: the startup enumeration over a list W of existing windows
\* leaves the same dispatcher state (registered clients, view entries,
\* visible-window list, unmanaged-window list) as a map-request for each
\* window of W in the same order, for every W of manageable and
\* non-manageable windows.
C15_Stated ==
    status = "setup" =>
        \A children \in ChildLists, env \in Envs :
            \E env2 \in Envs :
                SameDispatcherState(
                    setup_clients([WmNow EXCEPT !.status = "running"],
                                  Some(children), env),
                    map_each([WmNow EXCEPT !.status = "running"], children, env2))

\* C16 as stated: the view cache is keyed by the unordered set of tags: two
\* tag lists that hold the same tags in a different order resolve to one and
\* the same view entry under get_order_or_insert and get_focused_window, and a
\* focus change made through one of them (focus_next) is observed through
\* the other.
C16_Stated ==
    \A t1, t2 \in ViewKeys :
        Range(t1) = Range(t2) =>
            /\ t1 \in DOMAIN clients.order <=> t2 \in DOMAIN clients.order
            /\ get_focused_window(clients, t1) = get_focused_window(clients, t2)
            /\ \A values \in ValuesOrders(clients) :
                  /\ get_order_or_insert(clients, t1, values).order[t1]
                     = get_order_or_insert(clients, t2, values).order[t2]
                  /\ get_focused_window(
                         ClientSet_focus_next(clients, t1, values), t2)
                     = get_focused_window(
                           ClientSet_focus_next(clients, t1, values), t1)

\* is the step a call of op for window, as the registry machines record it?
Called(op) == trace' # <<>> /\ trace'[1].op = op

\* C17: ClientSet.add(c) for a window not yet registered appends a reference
\* to c at the end of the sequence of every materialized view entry whose key
\* intersects c's tags (the earlier members keep their order) and makes c the
\* focus of that entry; every other materialized entry keeps its sequence
\* and its focus, and no entry is created.
C17_AddAppendsAndFocuses ==
    [][(Called("add") /\ trace'[1].window \notin Owned(clients))
         => /\ Owned(clients') = Owned(clients) \cup {trace'[1].window}
            /\ DOMAIN clients'.order = DOMAIN clients.order
            /\ \A k \in DOMAIN clients.order :
                  IF match_tags(clients'.clients[trace'[1].window], k)
                  THEN /\ clients'.order[k].refs
                          = Append(clients.order[k].refs, trace'[1].window)
                       /\ clients'.order[k].focus = Some(trace'[1].window)
                  ELSE clients'.order[k] = clients.order[k]]_vars

\* C17 witness: the call made last was add of a window new to the registry:
\* it is the last of several members and the focus of a view it matches,
\* and a view it does not match does not hold it
C17_AddedToOneOfTwoViews ==
    /\ trace # <<>>
    /\ trace[1].op = "add"
    /\ trace[1].window \in Owned(clients)
    /\ \E k1, k2 \in DOMAIN clients.order :
          /\ match_tags(clients.clients[trace[1].window], k1)
          /\ Len(clients.order[k1].refs) >= 2
          /\ clients.order[k1].refs[Len(clients.order[k1].refs)] = trace[1].window
          /\ clients.order[k1].focus = Some(trace[1].window)
          /\ ~match_tags(clients.clients[trace[1].window], k2)
          /\ clients.order[k2].refs # <<>>
          /\ trace[1].window \notin Range(clients.order[k2].refs)

\* C18 as stated: ClientSet.remove(w) for a registered window w returns true,
\* and afterwards in every view entry no reference to w remains, the
\* remaining references keep their relative order, the focus is unchanged if
\* it did not point to w, and otherwise points to the first remaining
\* reference or is cleared when none remains.
C18_Stated ==
    [][(Called("remove") /\ trace'[1].window \in Owned(clients))
         => /\ trace'[1].geom = Some(TRUE)
            /\ DOMAIN clients'.order = DOMAIN clients.order
            /\ \A k \in DOMAIN clients.order :
                  /\ trace'[1].window \notin Range(clients'.order[k].refs)
                  /\ clients'.order[k].refs
                     = SelectSeq(clients.order[k].refs,
                                 LAMBDA r : r \in Range(clients'.order[k].refs))
                  /\ IF clients.order[k].focus = Some(trace'[1].window)
                     THEN clients'.order[k].focus
                          = IF clients'.order[k].refs = <<>> THEN None
                            ELSE Some(clients'.order[k].refs[1])
                     ELSE clients'.order[k].focus = clients.order[k].focus]_vars

\* C18: ClientSet.remove(w) for a registered window w returns true, and
\* afterwards in every view entry no reference to w and no reference that no
\* longer resolves remains, the remaining references keep their relative
\* order, the focus is unchanged if it resolved and did not point to w, and
\* otherwise (it pointed to w, or to nothing, or to a client that a later add
\* for the same window has replaced) points to the first remaining reference
\* or is cleared when none remains.
C18_RemoveSweeps ==
    [][(Called("remove") /\ trace'[1].window \in Owned(clients))
         => /\ trace'[1].geom = Some(TRUE)
            /\ Owned(clients') = Owned(clients) \ {trace'[1].window}
            /\ DOMAIN clients'.order = DOMAIN clients.order
            /\ \A k \in DOMAIN clients.order :
                  /\ clients'.order[k].refs
                     = SelectSeq(clients.order[k].refs,
                                 LAMBDA r : r \notin {trace'[1].window, Dead})
                  /\ IF /\ clients.order[k].focus # None
                        /\ clients.order[k].focus[1] \notin {trace'[1].window, Dead}
                     THEN clients'.order[k].focus = clients.order[k].focus
                     ELSE clients'.order[k].focus
                          = IF clients'.order[k].refs = <<>> THEN None
                            ELSE Some(clients'.order[k].refs[1])]_vars

\* C18 witness: the call made last was remove of a registered window (it
\* returned true); one view keeps two members and another view is left
\* without member and without focus
C18_RemovedFromViews ==
    /\ trace # <<>>
    /\ trace[1].op = "remove"
    /\ trace[1].geom = Some(TRUE)
    /\ \E k1, k2 \in DOMAIN clients.order :
          /\ Len(clients.order[k1].refs) = 2
          /\ clients.order[k1].focus # None
          /\ clients.order[k2].refs = <<>>
          /\ clients.order[k2].focus = None

\* ---------------------------------------------------------------------------
\* C19: remove(w) and update_client(w, f) for a window w the registry does not
\* own return false and None, never produce the mutator's result, never fault,
\* and leave the client map and every view entry as they were.
C19_UnknownWindowIsNoOp ==
    [][((Called("remove") \/ Called("update_client"))
            /\ trace'[1].window \notin Owned(clients))
         => /\ clients' = clients
            /\ status' = status
            /\ trace'[1].geom =
                 IF trace'[1].op = "remove" THEN Some(FALSE) ELSE None]_vars

\* the last call was an update of a window without a client, answered None,
\* on a registry that owns clients and has a view with a focused member
C19_UnknownUpdated ==
    /\ Len(trace) = 1
    /\ trace[1].op = "update_client"
    /\ trace[1].window \notin Owned(clients)
    /\ trace[1].geom = None
    /\ Owned(clients) # {}
    /\ \E k \in DOMAIN clients.order :
          /\ clients.order[k].refs # <<>>
          /\ clients.order[k].focus # None
    /\ status = "running"

\* ---------------------------------------------------------------------------
\* C20: after update_client(w, f) on a registered client, every view the
\* client matched and no longer matches has lost its reference, with the focus
\* moved to the first remaining member (none if the view is empty) when it
\* pointed to the client and unchanged otherwise; every view the client now
\* matches but was not in has exactly one reference to it appended at the end,
\* focused only if the view had no focus; every view whose match status did
\* not change keeps its sequence and focus; the value returned is the
\* mutator's intent.
C20_UpdateFixesViews ==
    [][(Called("update_client") /\ trace'[1].window \in Owned(clients))
         => /\ Owned(clients') = Owned(clients)
            /\ DOMAIN clients'.order = DOMAIN clients.order
            /\ trace'[1].geom = Some("Redraw")
            /\ \A k \in DOMAIN clients.order :
                  /\ (match_tags(clients.clients[trace'[1].window], k)
                        /\ ~match_tags(clients'.clients[trace'[1].window], k))
                      => /\ clients'.order[k].refs =
                              SelectSeq(clients.order[k].refs,
                                        LAMBDA r : r # trace'[1].window)
                         /\ clients'.order[k].focus =
                              IF clients.order[k].focus = Some(trace'[1].window)
                              THEN IF clients'.order[k].refs = <<>>
                                   THEN None
                                   ELSE Some(clients'.order[k].refs[1])
                              ELSE clients.order[k].focus
                  /\ (match_tags(clients'.clients[trace'[1].window], k)
                        /\ trace'[1].window \notin Range(clients.order[k].refs))
                      => /\ clients'.order[k].refs =
                              Append(clients.order[k].refs, trace'[1].window)
                         /\ clients'.order[k].focus =
                              IF clients.order[k].focus = None
                              THEN Some(trace'[1].window)
                              ELSE clients.order[k].focus
                  /\ (match_tags(clients.clients[trace'[1].window], k)
                        = match_tags(clients'.clients[trace'[1].window], k))
                      => clients'.order[k] = clients.order[k]]_vars

\* the last call updated a registered client, and the registry holds a view
\* the client does not match and is not in, whose focus is another member,
\* and a view the client matches where it stands last, behind the focused
\* member
C20_MovedBetweenViews ==
    /\ Len(trace) = 1
    /\ trace[1].op = "update_client"
    /\ trace[1].window \in Owned(clients)
    /\ trace[1].geom = Some("Redraw")
    /\ \E k \in DOMAIN clients.order :
          /\ ~match_tags(clients.clients[trace[1].window], k)
          /\ trace[1].window \notin Range(clients.order[k].refs)
          /\ clients.order[k].refs # <<>>
          /\ clients.order[k].focus # None
    /\ \E k \in DOMAIN clients.order :
          /\ match_tags(clients.clients[trace[1].window], k)
          /\ Len(clients.order[k].refs) >= 2
          /\ clients.order[k].refs[Len(clients.order[k].refs)] = trace[1].window
          /\ clients.order[k].focus = Some(clients.order[k].refs[1])

\* ---------------------------------------------------------------------------
\* C21 as stated: with the focused client at index i of a view of n >= 1
\* members, focus_prev and swap_prev target index (i - 1) mod n and focus_next
\* and swap_next target index (i + 1) mod n.
C21_Stated ==
    \A k \in DOMAIN clients.order :
        Settled(clients, k)
            => /\ ClientSet_focus_prev(clients, k, <<>>).order[k].focus
                  = Some(clients.order[k].refs[
                        ((FocusIndex(clients, k) - 1)
                            % Len(clients.order[k].refs)) + 1])
               /\ ClientSet_focus_next(clients, k, <<>>).order[k].focus
                  = Some(clients.order[k].refs[
                        ((FocusIndex(clients, k) + 1)
                            % Len(clients.order[k].refs)) + 1])
               /\ ClientSet_swap_prev(clients, k, <<>>).order[k].refs
                  = SwapAt(clients.order[k].refs, FocusIndex(clients, k) + 1,
                           ((FocusIndex(clients, k) - 1)
                               % Len(clients.order[k].refs)) + 1)
               /\ ClientSet_swap_next(clients, k, <<>>).order[k].refs
                  = SwapAt(clients.order[k].refs, FocusIndex(clients, k) + 1,
                           ((FocusIndex(clients, k) + 1)
                               % Len(clients.order[k].refs)) + 1)

\* the navigation calls that move the focus and those that move a client
FocusNavNames == {"focus_next", "focus_prev", "focus_right", "focus_left",
                  "focus_top", "focus_bottom"}
SwapNavNames == {"swap_next", "swap_prev", "swap_right", "swap_left",
                 "swap_top", "swap_bottom", "swap_master"}

\* ---------------------------------------------------------------------------
\* C22: every focus_* call leaves the member sequence of every view unchanged
\* and changes at most the focus reference of the addressed view; every
\* swap_* call leaves the focus reference of every view on the same client
\* and changes the sequence of the addressed view only by exchanging two
\* positions; views other than the addressed one are unchanged, and the
\* only entry a call may add is the addressed one.
C22_FocusMovesFocusSwapMovesMembers ==
    [][(trace' # <<>> /\ trace'[1].op \in FocusNavNames \cup SwapNavNames)
         => /\ clients'.clients = clients.clients
            /\ DOMAIN clients.order \subseteq DOMAIN clients'.order
            /\ DOMAIN clients'.order
                  \subseteq DOMAIN clients.order \cup {trace'[1].geom}
            /\ \A k \in DOMAIN clients.order :
                  /\ k # trace'[1].geom => clients'.order[k] = clients.order[k]
                  /\ trace'[1].op \in FocusNavNames
                        => clients'.order[k].refs = clients.order[k].refs
                  /\ trace'[1].op \in SwapNavNames
                        => /\ clients'.order[k].focus = clients.order[k].focus
                           /\ \/ clients'.order[k].refs = clients.order[k].refs
                              \/ \E i, j \in DOMAIN clients.order[k].refs :
                                    clients'.order[k].refs
                                    = SwapAt(clients.order[k].refs, i, j)]_vars

\* the call made last was swap_left on a view of 3 members laid out as a
\* horizontal stack, which now has its focused client at index 1, next to
\* another view with members of its own
C22_SwappedLeftOnThree ==
    /\ Len(trace) = 1
    /\ trace[1].op = "swap_left"
    /\ trace[1].geom = <<1>>
    /\ <<1>> \in DOMAIN clients.order
    /\ Len(clients.order[<<1>>].refs) = 3
    /\ clients.order[<<1>>].focus = Some(clients.order[<<1>>].refs[2])
    /\ <<2>> \in DOMAIN clients.order
    /\ clients.order[<<2>>].refs # <<>>
    /\ status = "running"

\* the closures the navigation call named nav may hand to focus_direction and
\* swap_direction for the view keyed k; the offset calls hand none
FocusFuncs(nav, k) ==
    {[dir |-> d, layout |-> DirectionLayout(k, inv)] :
        d \in {d \in {"right", "left", "top", "bottom"} :
                  nav \in {"focus_" \o d, "swap_" \o d}}
               \cup {d \in {"master"} : nav = "swap_master"},
        inv \in BOOLEAN}

\* is the call recorded in tr a navigation call?
IsNavigation(tr) ==
    tr # <<>> /\ tr[1].op \in FocusNavNames \cup SwapNavNames

C24_PushKeepsLastThree ==
    /\ Len(tag_stack) <= 4
    /\ \A tagset \in PushTagSets :
          \E kept \in {IF Len(tag_stack) < 3 THEN Len(tag_stack) ELSE 3} :
             /\ Len(TagStack_push(tag_stack, tagset)) = kept + 1
             /\ SubSeq(TagStack_push(tag_stack, tagset), 1, kept)
                = SubSeq(tag_stack, Len(tag_stack) - kept + 1, Len(tag_stack))
             /\ current(TagStack_push(tag_stack, tagset)) = Some(tagset)

\* five pushes, and nothing else, have been made since TagStack::new(): the
\* fifth met a stack of 4 entries and dropped the oldest, which was not the
\* tag set pushed second
C24_FifthPushed ==
    /\ pushed # None
    /\ Len(pushed[1]) = 5
    /\ Len(tag_stack) = 4
    /\ pushed[1][1] # pushed[1][2]
    /\ tag_stack[1] = pushed[1][2]
    /\ current(tag_stack) = Some(pushed[1][5])
\* ---------------------------------------------------------------------------
\* C25 as stated: the tag list of a tag set is never empty: starting from tag
\* sets with at least one tag, after any sequence of toggle_tag calls on the
\* current entry every tag set of the stack still has at least one tag.
C25_Stated == \A i \in DOMAIN tag_stack : tag_stack[i].tags # <<>>

\* ---------------------------------------------------------------------------
\* C26 as stated: for every 8-bit factor f and every signed 8-bit delta d,
\* the most negative one included, VStack.edit_layout never fails and
\* MasterFactorRel(d) with d < 0 sets the factor to max(0, f - |d|),
\* MasterFactorRel(d) with d >= 0 sets it to min(255, f + d) mod 100, and
\* MasterFactorAbs(v) sets it to v mod 100.
C26_Stated ==
    status = "running"
        => \A msg \in EditMessages :
              /\ ~VStack_edit_layout(layout, msg, overflow_checks).panic
              /\ (msg.kind = "MasterFactorRel" /\ msg.value < 0)
                    => VStack_edit_layout(layout, msg, overflow_checks)
                          .layout.master_factor
                       = IF layout.master_factor + msg.value > 0
                         THEN layout.master_factor + msg.value ELSE 0
              /\ (msg.kind = "MasterFactorRel" /\ msg.value >= 0)
                    => VStack_edit_layout(layout, msg, overflow_checks)
                          .layout.master_factor
                       = (IF layout.master_factor + msg.value < 255
                          THEN layout.master_factor + msg.value ELSE 255) % 100
              /\ msg.kind = "MasterFactorAbs"
                    => VStack_edit_layout(layout, msg, overflow_checks)
                          .layout.master_factor
                       = msg.value % 100

\* the extent of the master region along the split axis in the vector
\* returned last: the height of the first rectangle under HStack, its width
\* under VStack
MasterExtent(l, geoms) ==
    IF l.kind = "HStack" THEN geoms[1][1].height ELSE geoms[1][1].width

\* the screen dimension along the split axis
SplitDimension(l, scr) == IF l.kind = "HStack" THEN scr.height ELSE scr.width

\* ---------------------------------------------------------------------------
\* C27 as stated: for HStack and VStack with member_count > 1, every master
\* factor and every screen dimension, arrange succeeds and the extent of the
\* master region along the split axis is
\* min(dimension, floor(master_factor * dimension / 100)), and the layout with
\* the inverted flag flipped gives the master region the same extent.
C27_Stated ==
    (layout.kind \in {"HStack", "VStack"} /\ num_windows > 1 /\ Arranged) =>
        /\ status = "running"
        /\ geometries # None
        /\ geometries[1][1] # None
        /\ MasterExtent(layout, geometries[1])
           = IF (layout.master_factor * SplitDimension(layout, screen)) \div 100
                < SplitDimension(layout, screen)
             THEN (layout.master_factor * SplitDimension(layout, screen)) \div 100
             ELSE SplitDimension(layout, screen)
        /\ MasterExtent(layout,
                        arrange([layout EXCEPT !.inverted = ~layout.inverted],
                                num_windows, screen).res)
           = MasterExtent(layout, geometries[1])

\* is answer, given for index, None or the adjacent stack member index + by,
\* asked at a stack member?
WithinStack(answer, index, by) ==
    answer # None
        => /\ index >= 1
           /\ answer[1] = index + by
           /\ answer[1] >= 1

\* is answer, given for index, None or a step between the master and a
\* stack member?
AcrossSplit(answer, index) ==
    answer # None
        => \/ index = 0 /\ answer[1] >= 1
           \/ index >= 1 /\ answer[1] = 0

\* ---------------------------------------------------------------------------
\* C28 as stated: in HStack right_window and left_window answer only for a
\* stack member (index >= 1), with the adjacent stack member, and top_window
\* and bottom_window only relate the master and a stack member; VStack is the
\* mirror image; a view with a single member has no neighbour in any
\* direction.
C28_Stated ==
    query # None =>
        /\ layout.kind = "HStack"
              => /\ WithinStack(query[1].right, query[1].index, 1)
                 /\ WithinStack(query[1].left, query[1].index, -1)
                 /\ AcrossSplit(query[1].top, query[1].index)
                 /\ AcrossSplit(query[1].bottom, query[1].index)
        /\ layout.kind = "VStack"
              => /\ WithinStack(query[1].bottom, query[1].index, 1)
                 /\ WithinStack(query[1].top, query[1].index, -1)
                 /\ AcrossSplit(query[1].left, query[1].index)
                 /\ AcrossSplit(query[1].right, query[1].index)
        /\ num_windows = 1 => Answers = {None}

\* ---------------------------------------------------------------------------
\* C29: in every registry state reached through add of windows not yet
\* registered, remove, update_client, get_order_or_insert and the navigation
\* calls, the focus reference of each view entry is absent exactly when the
\* entry's sequence has no members, and otherwise resolves to a client that
\* occurs in the entry's sequence.
C29_FocusIsMember ==
    \A k \in DOMAIN clients.order :
        /\ clients.order[k].focus = None <=> clients.order[k].refs = <<>>
        /\ clients.order[k].focus # None
              => /\ upgrade(clients.order[k].focus[1])
                 /\ clients.order[k].focus[1] \in Owned(clients)
                 /\ clients.order[k].focus[1] \in Range(clients.order[k].refs)

\* the call made last was an update_client that took the client out of a
\* view which keeps two members, the focus on the first of them, while the
\* other view holds the updated client alone and focused
C29_FocusedClientLeftView ==
    /\ Len(trace) = 1
    /\ trace[1].op = "update_client"
    /\ trace[1].geom = Some("Redraw")
    /\ \E k \in DOMAIN clients.order :
          /\ Len(clients.order[k].refs) = 2
          /\ trace[1].window \notin Range(clients.order[k].refs)
          /\ clients.order[k].focus = Some(clients.order[k].refs[1])
    /\ \E k \in DOMAIN clients.order :
          /\ clients.order[k].refs = <<trace[1].window>>
          /\ clients.order[k].focus = Some(trace[1].window)

\* ---------------------------------------------------------------------------
\* C30 as stated: after the handling of any event the window recorded as
\* focused is none or a registered client - after the destroy-notification
\* of the focused window the record no longer names it - and no unfocus
\* (border colour) request of the event names a window that is not
\* registered.
C30_Stated ==
    /\ focused_window # None => focused_window[1] \in Owned(clients)
    /\ \A i \in DOMAIN trace :
          trace[i].op = "unfocus" => trace[i].window \in Owned(clients)

\* the positions of the calls and requests named op in the trace tr
Positions(tr, op) == {i \in DOMAIN tr : tr[i].op = op}

\* ---------------------------------------------------------------------------
\* C31 as stated: whenever an event performs a refocus (reset_focus) while a
\* registered client's tags intersect the current tag set, exactly one focus
\* request is made and it names a client matching the current tag set - also
\* when the key callback of the event changed or pushed the current tag set
\* and returned the refocus-only command, and in the destroy-notification
\* handler.
C31_Stated ==
    (/\ status = "running"
     /\ Positions(trace, "reset_focus") # {}
     /\ current(tag_stack) # None
     /\ Matching(clients, current(tag_stack)[1].tags) # {})
        => /\ Cardinality(Positions(trace, "focus")) = 1
           /\ \A i \in Positions(trace, "focus") :
                 trace[i].window
                    \in Matching(clients, current(tag_stack)[1].tags)

\* the command a callback returns to ask for a refocus alone
FocusCommand == [cmd |-> "Focus", arg |-> 0]

\* ---------------------------------------------------------------------------
\* C32 as stated: handling a refocus-only (Focus) command changes no view
\* entry's member order and makes no placement or hide request, for every
\* layout of the current tag set, those whose new_window_as_master() is true
\* included: only focus and unfocus requests and the recorded focused window
\* may change.
C32_Stated ==
    status = "running"
        => \A env \in Envs :
              /\ interpret(WmNow, FocusCommand, env).clients = clients
              /\ interpret(WmNow, FocusCommand, env).visible_windows
                 = visible_windows
              /\ \A i \in DOMAIN interpret(WmNow, FocusCommand, env).trace :
                    interpret(WmNow, FocusCommand, env).trace[i].op
                       \in {"reset_focus", "focus", "unfocus"}

\* ---------------------------------------------------------------------------
\* C33 as stated: after the destroy-notification for a window w has been
\* handled, w is neither a registered client nor an element of the list of
\* unmanaged windows, whatever events came before, several map-requests for
\* the same non-manageable window included.
C33_Stated ==
    (/\ status = "running"
     /\ trace # <<>>
     /\ trace[1].op = "destroy_notify")
        => /\ trace[1].window \notin Owned(clients)
           /\ trace[1].window \notin Range(unmanaged_windows)

\* the windows of the members refs that have a rectangle in geoms, in member
\* order
PlacedOf(refs, geoms) ==
    LET idx == SelectSeq([i \in DOMAIN refs |-> i],
                         LAMBDA i : /\ i \in DOMAIN geoms
                                    /\ refs[i] # Dead
                                    /\ geoms[i] # None)
    IN [j \in DOMAIN idx |-> refs[idx[j]]]

\* is the list of visible windows the sequence of the windows of the current
\* view's members that the layout gives a rectangle?
VisibleArePlaced ==
    \E refs \in {clients.order[current(tag_stack)[1].tags].refs} :
       \E geoms \in {arrange(current(tag_stack)[1].layout, Len(refs),
                              WmScreen).res} :
          visible_windows = PlacedOf(refs, geoms)

\* has the window been sent offscreen before the first rectangle of the
\* trace tr was issued?
HiddenFirst(tr, window) ==
    \E i \in Positions(tr, "hide") :
        /\ tr[i].window = window
        /\ \A j \in Positions(tr, "place") : i < j

\* ---------------------------------------------------------------------------
\* C34: after every redraw performed with a non-empty tag stack the list of
\* visible windows is exactly the sequence of the windows of the current
\* view's members that were given a rectangle, in view order and without
\* duplicates, and every window that was in the list before the redraw was
\* sent offscreen (hide) before any new rectangle was issued.
C34_RedrawReplacesVisible ==
    [][(status' = "running" /\ Redrawn' /\ tag_stack' # <<>>)
          => /\ current(tag_stack')[1].tags \in DOMAIN clients'.order
             /\ VisibleArePlaced'
             /\ NoDuplicates(visible_windows')
             /\ \A w \in Range(visible_windows) : HiddenFirst(trace', w)]_vars

\* C34 witness: a redraw has replaced a list of one visible window by a list
\* of two, the window that was visible having been sent offscreen first
C34_RedrawnOverVisible ==
    /\ status = "running"
    /\ Redrawn
    /\ tag_stack # <<>>
    /\ Len(visible_windows) = 2
    /\ Cardinality(Positions(trace, "hide")) >= 1
    /\ Cardinality(Positions(trace, "place")) = 2
    /\ \A i \in Positions(trace, "hide") :
          \A j \in Positions(trace, "place") : i < j

\* does the rectangle g lie inside the usable region of the screen scr?
InsideScreen(g, scr) ==
    /\ g.x >= scr.offset_x
    /\ g.y >= scr.offset_y
    /\ g.x + g.width <= scr.offset_x + scr.width
    /\ g.y + g.height <= scr.offset_y + scr.height

\* ---------------------------------------------------------------------------
\* C35 as stated: for every master factor (0..99 and 100 or more), every
\* member count, both values of inverted and fixed and every screen size,
\* HStack.arrange and VStack.arrange compute each rectangle without unsigned
\* 16-bit underflow or overflow, each rectangle lies inside the usable screen
\* region, and exactly member_count entries are returned (none for no
\* member).
C35_Stated ==
    (layout.kind \in {"HStack", "VStack"} /\ Arranged) =>
        /\ status = "running"
        /\ ~arrange(layout, num_windows, screen).ovf
        /\ geometries # None
        /\ Len(geometries[1]) = num_windows
        /\ \A i \in DOMAIN geometries[1] :
              /\ geometries[1][i] # None
              /\ InsideScreen(geometries[1][i][1], screen)

====
